---- MODULE Spec2Model ----
(***************************************************************************)
(* gocommerce: typed client bindings for the Squarespace Commerce APIs.    *)
(*                                                                         *)
(* The library keeps no state of its own.  The model follows one caller    *)
(* that owns a session configuration and makes one synchronous call after  *)
(* the other: pc says whether a call has returned, call holds the call     *)
(* that returned last - its inputs, the request handed to the transport    *)
(* (if any) and the values returned.                                       *)
(*                                                                         *)
(* Text is modelled by strings (\o is concatenation).  Values the code     *)
(* splits or parses (the type filter, the modified timestamps) are         *)
(* sequences of lexical tokens; Concat gives their text.                   *)
(***************************************************************************)
EXTENDS Integers, Sequences, FiniteSets, TLC

VARIABLES pc, call

vars == <<pc, call>>

(***************************************************************************)
(* Bounds of the model.                                                    *)
(***************************************************************************)
\* longest type filter, in tokens
MaxTypeLen == 4

\* the longest ID list handed to a RetrieveSpecific operation
MaxIDs == 51

\* the most query fields a caller of a list operation sets at once
MaxParamFields == 2

(***************************************************************************)
(* Text helpers.                                                           *)
(***************************************************************************)
RECURSIVE Concat(_)
Concat(segs) ==
    IF segs = <<>> THEN "" ELSE Head(segs) \o Concat(Tail(segs))

\* the nil error
NilErr == "<nil>"

\* fmt.Errorf(prefix + ": %w", err)
Wrap(prefix, err) == prefix \o ": " \o err

(***************************************************************************)
(* common: constants.                                                      *)
(***************************************************************************)
ProductTypePhysical == "PHYSICAL"
ProductTypeDigital == "DIGITAL"
DefaultUserAgent == "gocommerce/default-client"
ProductionHost == "https://api.squarespace.com"

(***************************************************************************)
(* common.ParseErrorResponse.                                              *)
(*                                                                         *)
(* A response body is its raw text together with what a JSON parser makes  *)
(* of it: kind is "invalid" for text that is not JSON, otherwise the kind  *)
(* of the top-level value; for an object, obj gives the value under each   *)
(* key the library looks at.                                               *)
(***************************************************************************)
Absent == [t |-> "absent"]
JNull == [t |-> "null"]
JNum(n) == [t |-> "number", v |-> n]
JStr(s) == [t |-> "string", v |-> s]

BodyKeys == <<"type", "subtype", "message", "detail", "id">>

EmptyObj == [type |-> Absent, subtype |-> Absent, message |-> Absent,
             detail |-> Absent, id |-> Absent]

\* JSON text of one member, "" when the key is absent
MemberText(key, val) ==
    CASE val.t = "absent" -> ""
      [] val.t = "null" -> "\"" \o key \o "\":null"
      [] val.t = "number" -> "\"" \o key \o "\":" \o ToString(val.v)
      [] val.t = "string" -> "\"" \o key \o "\":\"" \o val.v \o "\""

RECURSIVE JoinNonEmpty(_, _)
JoinNonEmpty(parts, sep) ==
    IF parts = <<>> THEN ""
    ELSE LET rest == JoinNonEmpty(Tail(parts), sep)
         IN  IF Head(parts) = "" THEN rest
             ELSE IF rest = "" THEN Head(parts)
             ELSE Head(parts) \o sep \o rest

\* the raw text of a JSON object with the given members
ObjectText(obj) ==
    "{" \o JoinNonEmpty([i \in 1..Len(BodyKeys) |->
                            MemberText(BodyKeys[i], obj[BodyKeys[i]])], ",")
        \o "}"

ObjectBody(obj) == [raw |-> ObjectText(obj), kind |-> "object", obj |-> obj]
OtherBody(raw, kind) == [raw |-> raw, kind |-> kind, obj |-> EmptyObj]

\* encoding/json decoding one string field: absent and null leave the zero
\* value, a string sets it, any other JSON type is an UnmarshalTypeError
StringFieldOK(val) == val.t \in {"absent", "null", "string"}
StringField(val) == IF val.t = "string" THEN val.v ELSE ""

\* json.Unmarshal(body, &apiError)
UnmarshalAPIError(body) ==
    [ok |-> CASE body.kind = "null" -> TRUE
              [] body.kind = "object" ->
                    /\ StringFieldOK(body.obj.type)
                    /\ StringFieldOK(body.obj.subtype)
                    /\ StringFieldOK(body.obj.message)
                    /\ StringFieldOK(body.obj.detail)
              [] OTHER -> FALSE,
     val |-> [Type |-> StringField(body.obj.type),
              Subtype |-> StringField(body.obj.subtype),
              Message |-> StringField(body.obj.message),
              Detail |-> StringField(body.obj.detail)]]

\* a plausible slip: the unconditional format of the first version of the
\* parser, which prints the subtype and detail labels even when empty
ParseErrorResponseMutantAlwaysLabels(endpoint, url, body, statusCode) ==
    LET dec == UnmarshalAPIError(body)
        apiError == dec.val
    IN  IF ~dec.ok
        THEN endpoint \o ": error unmarshalling response body: status: "
                \o ToString(statusCode)
        ELSE endpoint \o " url: " \o url \o ": status: " \o ToString(statusCode)
                \o ", type: " \o apiError.Type
                \o ", subtype: " \o apiError.Subtype
                \o ", message: " \o apiError.Message
                \o ", detail: " \o apiError.Detail

\* a plausible slip: the decode-failure branch of the first version of the
\* parser, which echoes the body
ParseErrorResponseMutantEchoesBody(endpoint, url, body, statusCode) ==
    LET dec == UnmarshalAPIError(body)
        apiError == dec.val
    IN  IF ~dec.ok
        THEN endpoint \o ": error unmarshalling response body: status: "
                \o ToString(statusCode) \o ", body: " \o body.raw
        ELSE Concat(<<endpoint, " url: ", url, ": status: ",
                      ToString(statusCode), ", type: ", apiError.Type>>
                    \o (IF apiError.Subtype # ""
                        THEN <<", subtype: ", apiError.Subtype>> ELSE <<>>)
                    \o <<", message: ", apiError.Message>>
                    \o (IF apiError.Detail # ""
                        THEN <<", detail: ", apiError.Detail>> ELSE <<>>))

\* errorFormat and errorArgs grow together, so the text is the
\* concatenation of the label and value segments in the order appended
ParseErrorResponse(endpoint, url, body, statusCode) ==
    LET dec == UnmarshalAPIError(body)
        apiError == dec.val
        seg1 == <<endpoint, " url: ", url, ": status: ", ToString(statusCode),
                  ", type: ", apiError.Type>>
        seg2 == IF apiError.Subtype # ""
                THEN seg1 \o <<", subtype: ", apiError.Subtype>> ELSE seg1
        seg3 == seg2 \o <<", message: ", apiError.Message>>
        seg4 == IF apiError.Detail # ""
                THEN seg3 \o <<", detail: ", apiError.Detail>> ELSE seg3
    IN  IF ~dec.ok
        THEN endpoint \o ": error unmarshalling response body: status: "
                \o ToString(statusCode)
        ELSE Concat(seg4)

(***************************************************************************)
(* common.SetUserAgent.                                                    *)
(***************************************************************************)
\* a SetUserAgent that overrides what the caller configured
SetUserAgentMutantAlwaysDefault(userAgent) == DefaultUserAgent

SetUserAgent(userAgent) ==
    IF userAgent = "" THEN DefaultUserAgent ELSE userAgent

(***************************************************************************)
(* common.validateTypeParam.  A type filter is a sequence of tokens: the   *)
(* words PHYSICAL, DIGITAL and INVALID, the comma and the space.           *)
(***************************************************************************)
RECURSIVE SplitAcc(_, _, _)
SplitAcc(s, cur, acc) ==
    IF s = <<>> THEN Append(acc, cur)
    ELSE IF Head(s) = "," THEN SplitAcc(Tail(s), <<>>, Append(acc, cur))
    ELSE SplitAcc(Tail(s), Append(cur, Head(s)), acc)

\* strings.Split(s, ","): the empty text yields one empty entry
SplitComma(s) == SplitAcc(s, <<>>, <<>>)

RECURSIVE TrimLeft(_)
TrimLeft(t) ==
    IF t # <<>> /\ Head(t) = " " THEN TrimLeft(Tail(t)) ELSE t

RECURSIVE TrimRight(_)
TrimRight(t) ==
    IF t # <<>> /\ t[Len(t)] = " " THEN TrimRight(SubSeq(t, 1, Len(t) - 1))
    ELSE t

\* strings.TrimSpace
TrimSpace(t) == TrimRight(TrimLeft(t))

TypeInvalidErr(productType) ==
    "type must be either 'PHYSICAL' or 'DIGITAL' (or both comma-separated), got: "
        \o Concat(productType)
TypeDuplicateErr(productType) ==
    "duplicate types found in: " \o Concat(productType)

validateTypeParamMutantNoDuplicateCheck(productType) ==
    LET types == SplitComma(productType)
        entry(i) == Concat(TrimSpace(types[i]))
    IN  IF \E i \in 1..Len(types) :
                entry(i) # ProductTypePhysical /\ entry(i) # ProductTypeDigital
        THEN TypeInvalidErr(productType)
        ELSE NilErr

validateTypeParam(productType) ==
    LET types == SplitComma(productType)
        entry(i) == Concat(TrimSpace(types[i]))
        validTypes == {entry(i) : i \in 1..Len(types)}
    IN  IF \E i \in 1..Len(types) :
                entry(i) # ProductTypePhysical /\ entry(i) # ProductTypeDigital
        THEN TypeInvalidErr(productType)
        ELSE IF Cardinality(validTypes) # Len(types)
        THEN TypeDuplicateErr(productType)
        ELSE NilErr

(***************************************************************************)
(* common.ValidateQueryParams.  A timestamp is a sequence of lexical       *)
(* parts; time.Parse(time.RFC3339, s) accepts date "T" time zone.          *)
(***************************************************************************)
ValidDates == {"2024-01-15", "2024-06-30"}
ValidTimes == {"10:30:00"}
ValidZones == {"Z", "+02:00"}

\* time.Parse(time.RFC3339, s) returns no error
ParsesRFC3339(s) ==
    /\ Len(s) = 4
    /\ s[1] \in ValidDates
    /\ s[2] = "T"
    /\ s[3] \in ValidTimes
    /\ s[4] \in ValidZones

\* the text of the *time.ParseError (its tail, which names the layout
\* element that failed, is left out)
TimeParseErr(s) == "parsing time \"" \o Concat(s) \o "\""

CursorErr == "cannot use cursor alongside other query parameters"
PairingErr ==
    "modifiedAfter and modifiedBefore must both be specified together or not at all"
ModifiedAfterErr(s) ==
    Wrap("modifiedAfter is not a valid ISO 8601 UTC date-time string",
         TimeParseErr(s))
ModifiedBeforeErr(s) ==
    Wrap("modifiedBefore is not a valid ISO 8601 UTC date-time string",
         TimeParseErr(s))

ValidateQueryParamsMutantChecksBeforeFirst(params) ==
    IF params.Cursor # ""
    THEN IF \/ params.Filter # "" \/ params.ModifiedAfter # <<>>
            \/ params.ModifiedBefore # <<>> \/ params.SortDirection # ""
            \/ params.SortField # "" \/ params.Status # ""
         THEN CursorErr
         ELSE NilErr
    ELSE IF \/ params.ModifiedAfter # <<>> /\ params.ModifiedBefore = <<>>
            \/ params.ModifiedAfter = <<>> /\ params.ModifiedBefore # <<>>
         THEN PairingErr
         ELSE IF params.ModifiedBefore # <<>>
                    /\ ~ParsesRFC3339(params.ModifiedBefore)
         THEN ModifiedBeforeErr(params.ModifiedBefore)
         ELSE IF params.ModifiedAfter # <<>>
                    /\ ~ParsesRFC3339(params.ModifiedAfter)
         THEN ModifiedAfterErr(params.ModifiedAfter)
         ELSE IF params.Type # <<>> /\ validateTypeParam(params.Type) # NilErr
         THEN Wrap("invalid type", validateTypeParam(params.Type))
         ELSE NilErr

ValidateQueryParamsMutantPairingAfterOnly(params) ==
    IF params.Cursor # ""
    THEN IF \/ params.Filter # "" \/ params.ModifiedAfter # <<>>
            \/ params.ModifiedBefore # <<>> \/ params.SortDirection # ""
            \/ params.SortField # "" \/ params.Status # ""
         THEN CursorErr
         ELSE NilErr
    ELSE IF params.ModifiedAfter # <<>> /\ params.ModifiedBefore = <<>>
         THEN PairingErr
         ELSE IF params.ModifiedAfter # <<>>
                    /\ ~ParsesRFC3339(params.ModifiedAfter)
         THEN ModifiedAfterErr(params.ModifiedAfter)
         ELSE IF params.ModifiedBefore # <<>>
                    /\ ~ParsesRFC3339(params.ModifiedBefore)
         THEN ModifiedBeforeErr(params.ModifiedBefore)
         ELSE IF params.Type # <<>> /\ validateTypeParam(params.Type) # NilErr
         THEN Wrap("invalid type", validateTypeParam(params.Type))
         ELSE NilErr

\* the rules with the type filter checked ahead of the modified bounds
ValidateQueryParamsMutantTypeFirst(params) ==
    IF params.Cursor # ""
    THEN IF \/ params.Filter # "" \/ params.ModifiedAfter # <<>>
            \/ params.ModifiedBefore # <<>> \/ params.SortDirection # ""
            \/ params.SortField # "" \/ params.Status # ""
         THEN CursorErr
         ELSE NilErr
    ELSE IF params.Type # <<>> /\ validateTypeParam(params.Type) # NilErr
         THEN Wrap("invalid type", validateTypeParam(params.Type))
         ELSE IF \/ params.ModifiedAfter # <<>> /\ params.ModifiedBefore = <<>>
                 \/ params.ModifiedAfter = <<>> /\ params.ModifiedBefore # <<>>
         THEN PairingErr
         ELSE IF params.ModifiedAfter # <<>>
                    /\ ~ParsesRFC3339(params.ModifiedAfter)
         THEN ModifiedAfterErr(params.ModifiedAfter)
         ELSE IF params.ModifiedBefore # <<>>
                    /\ ~ParsesRFC3339(params.ModifiedBefore)
         THEN ModifiedBeforeErr(params.ModifiedBefore)
         ELSE NilErr

ValidateQueryParams(params) ==
    IF params.Cursor # ""
    THEN IF \/ params.Filter # "" \/ params.ModifiedAfter # <<>>
            \/ params.ModifiedBefore # <<>> \/ params.SortDirection # ""
            \/ params.SortField # "" \/ params.Status # ""
         THEN CursorErr
         ELSE NilErr
    ELSE IF \/ params.ModifiedAfter # <<>> /\ params.ModifiedBefore = <<>>
            \/ params.ModifiedAfter = <<>> /\ params.ModifiedBefore # <<>>
         THEN PairingErr
         ELSE IF params.ModifiedAfter # <<>>
                    /\ ~ParsesRFC3339(params.ModifiedAfter)
         THEN ModifiedAfterErr(params.ModifiedAfter)
         ELSE IF params.ModifiedBefore # <<>>
                    /\ ~ParsesRFC3339(params.ModifiedBefore)
         THEN ModifiedBeforeErr(params.ModifiedBefore)
         ELSE IF params.Type # <<>> /\ validateTypeParam(params.Type) # NilErr
         THEN Wrap("invalid type", validateTypeParam(params.Type))
         ELSE NilErr

(***************************************************************************)
(* common.BuildBaseURL.  The result is the pair (url, err).                *)
(***************************************************************************)
BuildBaseURLMutantIgnoresOverride(config, version, path) ==
    [url |-> ProductionHost \o "/" \o version \o "/" \o path, err |-> NilErr]

BuildBaseURL(config, version, path) ==
    IF config.BaseURL # ""
    THEN [url |-> Concat(<<config.BaseURL, "/", version, "/", path>>),
          err |-> NilErr]
    ELSE [url |-> Concat(<<ProductionHost \o "/", version, "/", path>>),
          err |-> NilErr]

(***************************************************************************)
(* The session configuration (common.Config) and the inputs the caller     *)
(* draws from.                                                             *)
(***************************************************************************)
Nil == "nil"
TestServerURL == "http://localhost:8080"

Configs ==
    [APIKey : {"test-key"},
     AccessToken : {"", "test-token"},
     UserAgent : {"", "test-agent"},
     Client : {"client", Nil},
     IdempotencyKey : {Nil, "7f1c6b1e-idem"},
     BaseURL : {"", TestServerURL}]

RECURSIVE SeqsUpTo(_, _)
SeqsUpTo(S, n) ==
    IF n = 0 THEN {<<>>}
    ELSE LET shorter == SeqsUpTo(S, n - 1)
         IN  shorter \cup {Append(s, x) : s \in shorter, x \in S}

TypeTokens == {"PHYSICAL", "DIGITAL", "INVALID", ",", " "}
TypeFilters == SeqsUpTo(TypeTokens, MaxTypeLen)

\* the type filters of common/util_test.go, and none
TypeSamples ==
    {<<>>, <<"PHYSICAL">>, <<"DIGITAL">>, <<"PHYSICAL", ",", "DIGITAL">>,
     <<"PHYSICAL", ",", " ", "DIGITAL">>, <<"INVALID">>,
     <<"PHYSICAL", ",", "PHYSICAL">>}

TimestampSamples ==
    {<<>>,
     <<"2024-01-15", "T", "10:30:00", "Z">>,
     <<"2024-06-30", "T", "10:30:00", "+02:00">>,
     <<"invalid-date">>,
     <<"2024-01-15", "T", "10:30:00">>,
     <<"2024-13-45", "T", "10:30:00", "Z">>}

QueryParamSets ==
    [Cursor : {"", "abc123"},
     Filter : {"", "some-filter"},
     ModifiedAfter : TimestampSamples,
     ModifiedBefore : TimestampSamples,
     SortDirection : {"", "asc"},
     SortField : {"", "createdOn"},
     Status : {"", "PENDING"},
     Type : TypeSamples]

StatusCodes == {200, 201, 202, 204, 400}

ErrorObjects ==
    [type : {Absent, JStr("ERROR_TYPE"), JNum(7)},
     subtype : {Absent, JNull, JStr(""), JStr("SUB_ERROR"), JNum(7)},
     message : {Absent, JStr("Error occurred")},
     detail : {Absent, JStr(""), JStr("Additional details"), JNum(7)},
     id : {Absent, JStr("123")}]

ErrorBodies ==
    {ObjectBody(o) : o \in ErrorObjects}
        \cup {OtherBody("invalid json", "invalid"), OtherBody("null", "null"),
              OtherBody("[]", "array"), OtherBody("\"oops\"", "string"),
              OtherBody("42", "number")}

(***************************************************************************)
(* The caller.  A call is made when none is in progress and runs to its    *)
(* return; Return hands the results over and makes room for the next call. *)
(***************************************************************************)
Idle == [op |-> "none"]

Init ==
    /\ pc = "idle"
    /\ call = Idle

Return ==
    /\ pc = "returned"
    /\ pc' = "idle"
    /\ call' = Idle

Returns(record) ==
    /\ pc' = "returned"
    /\ call' = record

(***************************************************************************)
(* Direct calls of the helpers of package common.                          *)
(***************************************************************************)
CallValidateQueryParams ==
    /\ pc = "idle"
    /\ \E params \in QueryParamSets :
        Returns([op |-> "ValidateQueryParams", params |-> params,
                 err |-> ValidateQueryParams(params)])

CallValidateTypeParam ==
    /\ pc = "idle"
    /\ \E productType \in TypeFilters :
        Returns([op |-> "validateTypeParam", productType |-> productType,
                 err |-> validateTypeParam(productType)])

CallParseErrorResponse ==
    /\ pc = "idle"
    /\ \E body \in ErrorBodies, statusCode \in StatusCodes :
        Returns([op |-> "ParseErrorResponse", endpoint |-> "TestEndpoint",
                 url |-> "http://example.com/api", body |-> body,
                 statusCode |-> statusCode,
                 err |-> ParseErrorResponse("TestEndpoint",
                            "http://example.com/api", body, statusCode)])

CallSetUserAgent ==
    /\ pc = "idle"
    /\ \E userAgent \in {"", "custom-agent", DefaultUserAgent} :
        Returns([op |-> "SetUserAgent", userAgent |-> userAgent,
                 result |-> SetUserAgent(userAgent)])

CallBuildBaseURL ==
    /\ pc = "idle"
    /\ \E config \in Configs, version \in {"", "1.0"},
       path \in {"", "commerce/inventory", "profiles/a,b"} :
        LET built == BuildBaseURL(config, version, path)
        IN  Returns([op |-> "BuildBaseURL", config |-> config,
                     version |-> version, path |-> path,
                     url |-> built.url, err |-> built.err])

NextCommon ==
    \/ CallValidateQueryParams
    \/ CallValidateTypeParam
    \/ CallParseErrorResponse
    \/ CallSetUserAgent
    \/ CallBuildBaseURL
    \/ Return

SpecCommon == Init /\ [][NextCommon]_vars

(***************************************************************************)
(* The exposed operations.                                                 *)
(*                                                                         *)
(* Every operation runs to its return in one step: it checks its local     *)
(* preconditions, builds the URL, the body and the headers, hands the      *)
(* request to the injected transport (config.Client.Do) once, and turns    *)
(* the transport's answer into its return values.  The transport's answer  *)
(* is an input of the call: a transport error, or a response with a        *)
(* status code and a body whose reading succeeds or fails.                 *)
(***************************************************************************)
StatusOK == 200
StatusCreated == 201
StatusAccepted == 202
StatusNoContent == 204
StatusBadRequest == 400
NoCode == 0

NoBody == OtherBody("", "invalid")
NoResult == [nil |-> TRUE, id |-> ""]
NoRequest ==
    [method |-> "none", url |-> "", query |-> {},
     headers |-> [Authorization |-> Nil, UserAgent |-> Nil,
                  ContentType |-> Nil, IdempotencyKey |-> Nil],
     body |-> [kind |-> "none", text |-> ""]]
NoResponse ==
    [kind |-> "none", err |-> NilErr, status |-> NoCode, body |-> NoBody,
     readErr |-> NilErr]

TransportFailure ==
    [kind |-> "error", err |-> "dial tcp: connection refused",
     status |-> NoCode, body |-> NoBody, readErr |-> NilErr]
Response(status, body, readErr) ==
    [kind |-> "response", err |-> NilErr, status |-> status, body |-> body,
     readErr |-> readErr]

\* Bodies the remote service answers with: a resource, an API error object
\* and text that is no JSON.
ResponseBodies ==
    {ObjectBody([EmptyObj EXCEPT !.id = JStr("123")]),
     ObjectBody([EmptyObj EXCEPT !.type = JStr("INVALID_REQUEST_ERROR"),
                                 !.message = JStr("Bad Request")]),
     OtherBody("invalid json", "invalid")}

TransportAnswers ==
    {TransportFailure}
    \cup {Response(s, b, NilErr) : s \in StatusCodes, b \in ResponseBodies}
    \cup {Response(s, NoBody, "unexpected EOF") : s \in {StatusOK, StatusBadRequest}}

(***************************************************************************)
(* url.Values.Encode: the keys in sorted order, each as key=value with the *)
(* value query-escaped, joined by "&".  A query is a set of <<key, value>> *)
(* pairs with at most one pair per key; a value is a sequence of tokens.   *)
(***************************************************************************)
QueryKeys ==
    <<"cursor", "filter", "fulfillmentStatus", "modifiedAfter",
      "modifiedBefore", "sortDirection", "sortField", "type">>

EscapeToken(t) ==
    CASE t = "," -> "%2C"
      [] t = " " -> "+"
      [] t = "10:30:00" -> "10%3A30%3A00"
      [] t = "+02:00" -> "%2B02%3A00"
      [] OTHER -> t

QueryEscape(tokens) ==
    Concat([i \in 1..Len(tokens) |-> EscapeToken(tokens[i])])

QuerySet(key, value) == IF value = <<>> THEN {} ELSE {<<key, value>>}

Encode(query) ==
    JoinNonEmpty(
        [i \in 1..Len(QueryKeys) |->
            IF \E p \in query : p[1] = QueryKeys[i]
            THEN LET p == CHOOSE q \in query : q[1] = QueryKeys[i]
                 IN  QueryKeys[i] \o "=" \o QueryEscape(p[2])
            ELSE ""],
        "&")

\* url.URL.String of a URL without fragment: the query follows a "?" only
\* when it is not empty.
URLString(baseURL, query) ==
    IF query = {} THEN baseURL ELSE baseURL \o "?" \o Encode(query)

\* strings.Join of the n IDs id1 .. idn.
RECURSIVE JoinIDs(_, _)
JoinIDs(n, sep) ==
    IF n = 0 THEN ""
    ELSE IF n = 1 THEN "id1"
    ELSE JoinIDs(n - 1, sep) \o sep \o "id" \o ToString(n)

\* a decoder that takes any text for a result
UnmarshalResultMutantAcceptsAll(body) ==
    [ok |-> TRUE, err |-> NilErr,
     val |-> [nil |-> FALSE, id |-> StringField(body.obj.id)]]

\* json.Unmarshal of a response body into the operation's result struct: a
\* struct decodes from a JSON object or null and ignores the members it does
\* not know.  Of the result only that it exists and the id it carries are
\* kept.
UnmarshalResult(body) ==
    [ok |-> body.kind \in {"null", "object"},
     err |-> IF body.kind = "invalid"
             THEN "invalid character 'i' looking for beginning of value"
             ELSE "json: cannot unmarshal " \o body.kind
                     \o " into Go value",
     val |-> [nil |-> FALSE, id |-> StringField(body.obj.id)]]

(***************************************************************************)
(* The steps every operation shares.  An operation is described by         *)
(*   name      its function name, the endpoint label of its errors         *)
(*   shape     "typed" (returns a result and an error) or "status"         *)
(*             (returns a status code and an error)                        *)
(*   pre       the error of its first failing local check, NilErr if none  *)
(*   version, path, baseURL   the URL it builds                            *)
(*   query     the query parameters it sets                                *)
(*   method, body, credential, contentType, idempotent   the request       *)
(*   doErr     the text it wraps a transport error in                      *)
(*   expect    the status code it compares the response's with            *)
(***************************************************************************)
Outcome(d, req, calls, resp, result, code, err) ==
    [shape |-> d.shape, version |-> d.version, path |-> d.path,
     req |-> req, transportCalls |-> calls, resp |-> resp,
     bodyRead |-> FALSE, bodyClosed |-> FALSE,
     fileOpened |-> FALSE, fileClosed |-> FALSE,
     result |-> result, code |-> code, err |-> err, panicked |-> FALSE]

\* body, err := io.ReadAll(resp.Body): the call has read the response body
ReadAll(out) == [out EXCEPT !.bodyRead = TRUE]

\* a Close() written before the successful return only
DeferCloseMutantLeaksOnError(out) ==
    [out EXCEPT !.bodyClosed = (out.err = NilErr)]

\* defer resp.Body.Close(): the response body is closed when the call
\* returns, whatever it returns
DeferClose(out) == [out EXCEPT !.bodyClosed = TRUE]

\* return &response, err: the zero result handed back next to the error
FailsMutantReturnsZeroResult(d, req, calls, resp, err) ==
    Outcome(d, req, calls, resp, [nil |-> FALSE, id |-> ""],
            IF d.shape = "status" THEN StatusBadRequest ELSE NoCode, err)

\* return nil, err  /  return http.StatusBadRequest, err
Fails(d, req, calls, resp, err) ==
    Outcome(d, req, calls, resp, NoResult,
            IF d.shape = "status" THEN StatusBadRequest ELSE NoCode, err)

\* config.Client.Do on a nil *http.Client dereferences the nil pointer
\* before anything is sent: the call does not return.
Panics(d, req) ==
    [Outcome(d, req, 0, NoResponse, NoResult, NoCode, NilErr)
        EXCEPT !.panicked = TRUE]

\* headers with the configured user-agent as it is, empty or not
HeadersMutantRawUserAgent(d, config) ==
    [Authorization |-> "Bearer " \o d.credential,
     UserAgent |-> config.UserAgent,
     ContentType |-> d.contentType,
     IdempotencyKey |->
        IF d.idempotent /\ config.IdempotencyKey # Nil
        THEN config.IdempotencyKey ELSE Nil]

\* req.Header.Set(...)
Headers(d, config) ==
    [Authorization |-> "Bearer " \o d.credential,
     UserAgent |-> SetUserAgent(config.UserAgent),
     ContentType |-> d.contentType,
     IdempotencyKey |->
        IF d.idempotent /\ config.IdempotencyKey # Nil
        THEN config.IdempotencyKey ELSE Nil]

\* if resp.StatusCode != http.StatusXxx
IsExpectedStatusMutantAnySuccess(status, expect) == status \in 200..299

IsExpectedStatus(status, expect) == status = expect

TypedResponseMutantRetries(d, req, resp) ==
    IF resp.readErr # NilErr
    THEN Fails(d, req, 1, resp, Wrap("failed to read response body", resp.readErr))
    ELSE IF ~IsExpectedStatus(resp.status, d.expect)
    THEN Fails(d, req, 2, resp,
               ParseErrorResponse(d.name, req.url, resp.body, resp.status))
    ELSE LET decoded == UnmarshalResult(resp.body)
         IN  IF ~decoded.ok
             THEN Fails(d, req, 2, resp,
                        Wrap("failed to unmarshal response body",
                             decoded.err))
             ELSE Outcome(d, req, 1, resp, decoded.val, NoCode, NilErr)

\* body, err := io.ReadAll(resp.Body); status check; json.Unmarshal
TypedResponse(d, req, resp) ==
    DeferClose(ReadAll(
        IF resp.readErr # NilErr
        THEN Fails(d, req, 1, resp,
                   Wrap("failed to read response body", resp.readErr))
        ELSE IF ~IsExpectedStatus(resp.status, d.expect)
        THEN Fails(d, req, 1, resp,
                   ParseErrorResponse(d.name, req.url, resp.body, resp.status))
        ELSE LET decoded == UnmarshalResult(resp.body)
             IN  IF ~decoded.ok
                 THEN Fails(d, req, 1, resp,
                            Wrap("failed to unmarshal response body",
                                 decoded.err))
                 ELSE Outcome(d, req, 1, resp, decoded.val, NoCode, NilErr)))

\* a status-code operation that hands back whatever status it received and
\* no error
StatusResponseMutantSwallowsError(d, req, resp) ==
    DeferClose(Outcome(d, req, 1, resp, NoResult, resp.status, NilErr))

\* status check first; the body is read only for the error
StatusResponse(d, req, resp) ==
    DeferClose(
        IF IsExpectedStatus(resp.status, d.expect)
        THEN Outcome(d, req, 1, resp, NoResult, resp.status, NilErr)
        ELSE ReadAll(
            IF resp.readErr # NilErr
            THEN Fails(d, req, 1, resp,
                       Wrap("failed to read response body", resp.readErr))
            ELSE Outcome(d, req, 1, resp, NoResult, resp.status,
                         ParseErrorResponse(d.name, req.url, resp.body,
                                            resp.status))))

\* resp, err := config.Client.Do(req); if err != nil { return ..., wrapped }
\* comes before defer resp.Body.Close() and io.ReadAll
TransportErrorMutantDropsCause(d, req, net) ==
    Fails(d, req, 1, net, d.doErr)

TransportError(d, req, net) ==
    Fails(d, req, 1, net, Wrap(d.doErr, net.err))

Pipeline(d, ctx, config, net) ==
    LET req == [method |-> d.method, url |-> URLString(d.baseURL, d.query),
                query |-> d.query, headers |-> Headers(d, config),
                body |-> d.body]
    IN  IF d.pre # NilErr
        THEN Fails(d, NoRequest, 0, NoResponse, d.pre)
        ELSE IF ctx = Nil
        THEN Fails(d, NoRequest, 0, NoResponse,
                   Wrap("failed to create request", "net/http: nil Context"))
        ELSE IF config.Client = Nil
        THEN Panics(d, req)
        ELSE IF net.kind = "error"
        THEN TransportError(d, req, net)
        ELSE IF d.shape = "typed"
        THEN TypedResponse(d, req, net)
        ELSE StatusResponse(d, req, net)

\* The parts of a description most operations agree on.
JSONBody(text) == [kind |-> "json", text |-> text]
EmptyBody == [kind |-> "none", text |-> ""]
ContentTypeJSON == "application/json"

\* checks that run to the end and report the last failure
FirstErrorMutantReportsLast(errs) ==
    IF \E i \in 1..Len(errs) : errs[i] # NilErr
    THEN errs[CHOOSE i \in 1..Len(errs) :
                 /\ errs[i] # NilErr
                 /\ \A j \in (i + 1)..Len(errs) : errs[j] = NilErr]
    ELSE NilErr

FirstError(errs) ==
    IF \E i \in 1..Len(errs) : errs[i] # NilErr
    THEN errs[CHOOSE i \in 1..Len(errs) :
                 /\ errs[i] # NilErr
                 /\ \A j \in 1..(i - 1) : errs[j] = NilErr]
    ELSE NilErr

Check(failed, text) == IF failed THEN text ELSE NilErr

Describe(name, shape, pre, endpoint, query, request, doErr, expect) ==
    [name |-> name, shape |-> shape, pre |-> pre,
     version |-> endpoint.version, path |-> endpoint.path,
     baseURL |-> endpoint.baseURL, query |-> query,
     method |-> request.method, body |-> request.body,
     credential |-> request.credential,
     contentType |-> request.contentType,
     idempotent |-> request.idempotent,
     doErr |-> doErr, expect |-> expect]

\* baseURL, err := common.BuildBaseURL(config, version, path); the error is
\* always nil
Built(config, version, path) ==
    [version |-> version, path |-> path,
     baseURL |-> BuildBaseURL(config, version, path).url]

\* url := fmt.Sprintf("https://api.squarespace.com/%s/<path>", version)
Production(version, path) ==
    [version |-> version, path |-> path,
     baseURL |-> Concat(<<ProductionHost, "/", version, "/", path>>)]

Get(credential) ==
    [method |-> "GET", body |-> EmptyBody, credential |-> credential,
     contentType |-> Nil, idempotent |-> FALSE]
Delete(credential) ==
    [method |-> "DELETE", body |-> EmptyBody, credential |-> credential,
     contentType |-> Nil, idempotent |-> FALSE]
PostJSON(text, credential) ==
    [method |-> "POST", body |-> JSONBody(text), credential |-> credential,
     contentType |-> ContentTypeJSON, idempotent |-> FALSE]

\* json.Marshal of a request: its members in declaration order; a member
\* tagged json:"-" is not listed, an omitted one is Absent.  Only the string
\* members of the request structs are carried.
Marshal(members) ==
    "{" \o JoinNonEmpty([i \in 1..Len(members) |->
                            MemberText(members[i][1], members[i][2])], ",")
        \o "}"
OmitEmpty(s) == IF s = "" THEN Absent ELSE JStr(s)
OmitNil(p) == IF p = Nil THEN Absent ELSE JStr(p)

\* a string field of QueryParams as a query value
Str(s) == IF s = "" THEN <<>> ELSE <<s>>

(***************************************************************************)
(* package products                                                        *)
(***************************************************************************)
ProductsAPIVersion == "1.0"

CreateProduct(ctx, config, request, net) ==
    Pipeline(Describe("CreateProduct", "typed", NilErr,
                 Built(config, ProductsAPIVersion, "commerce/products"), {},
                 PostJSON(Marshal(<<<<"type", JStr(request.Type)>>,
                                    <<"storePageId", JStr(request.StorePageID)>>,
                                    <<"name", OmitEmpty(request.Name)>>>>),
                          config.APIKey),
                 "failed to create product", StatusCreated),
             ctx, config, net)

CreateProductVariant(ctx, config, request, net) ==
    Pipeline(Describe("CreateProductVariant", "typed",
                 Check(request.ProductID = "", "productID is required"),
                 Built(config, ProductsAPIVersion,
                       Concat(<<"commerce/products/", request.ProductID,
                                "/variants">>)), {},
                 PostJSON(Marshal(<<<<"sku", JStr(request.SKU)>>>>),
                          config.APIKey),
                 "failed to create product variant", StatusCreated),
             ctx, config, net)

\* os.Open(filePath) and io.Copy(part, file) on the sampled paths
OpenErr(filePath) ==
    Check(filePath = "missing.png",
          Wrap("failed to open file",
               "open missing.png: no such file or directory"))
CopyErr(filePath) ==
    Check(filePath = "images/",
          Wrap("failed to copy file content",
               "read images/: is a directory"))
FormDataContentType == "multipart/form-data; boundary=7d8f3c1a9b"

\* file, err := os.Open(filePath): the file is open when os.Open succeeded
OsOpen(filePath, out) ==
    [out EXCEPT !.fileOpened = (OpenErr(filePath) = NilErr)]

\* defer file.Close(), registered right after the successful os.Open, runs
\* however the function is left
DeferFileClose(out) == [out EXCEPT !.fileClosed = out.fileOpened]

UploadProductImage(ctx, config, productID, filePath, net) ==
    DeferFileClose(OsOpen(filePath,
    Pipeline(Describe("UploadProductImage", "typed",
                 FirstError(<<OpenErr(filePath), CopyErr(filePath)>>),
                 Built(config, ProductsAPIVersion,
                       Concat(<<"commerce/products/", productID, "/images">>)),
                 {},
                 [method |-> "POST",
                  body |-> [kind |-> "multipart", text |-> filePath],
                  credential |-> config.APIKey,
                  contentType |-> FormDataContentType,
                  idempotent |-> FALSE],
                 "failed to upload product image", StatusAccepted),
             ctx, config, net)))

InvalidParamsMutantSkipsValidation(params) == NilErr

InvalidParams(params) ==
    Check(ValidateQueryParams(params) # NilErr,
          Wrap("invalid query parameters", ValidateQueryParams(params)))

RetrieveAllStorePages(ctx, config, params, net) ==
    Pipeline(Describe("RetrieveAllStorePages", "typed", InvalidParams(params),
                 Built(config, ProductsAPIVersion, "commerce/store_pages"),
                 QuerySet("cursor", Str(params.Cursor)),
                 Get(config.APIKey),
                 "failed to fetch store pages", StatusOK),
             ctx, config, net)

RetrieveAllProducts(ctx, config, params, net) ==
    Pipeline(Describe("RetrieveAllProducts", "typed", InvalidParams(params),
                 Built(config, ProductsAPIVersion, "commerce/products"),
                 QuerySet("cursor", Str(params.Cursor))
                    \cup QuerySet("modifiedAfter", params.ModifiedAfter)
                    \cup QuerySet("modifiedBefore", params.ModifiedBefore)
                    \cup QuerySet("type", params.Type),
                 Get(config.APIKey),
                 "failed to execute request", StatusOK),
             ctx, config, net)

\* productIDs is the list id1 .. idn, given by its length n
RetrieveSpecificProducts(ctx, config, productIDs, net) ==
    Pipeline(Describe("RetrieveSpecificProducts", "typed",
                 FirstError(<<Check(productIDs = 0,
                                    "at least one product ID is required"),
                              Check(productIDs > 50,
                                    "cannot retrieve more than 50 products at once")>>),
                 Built(config, ProductsAPIVersion,
                       "commerce/products/" \o JoinIDs(productIDs, ",")), {},
                 Get(config.APIKey),
                 "failed to retrieve specific products", StatusOK),
             ctx, config, net)

GetProductImageUploadStatus(ctx, config, productID, imageID, net) ==
    Pipeline(Describe("GetProductImageUploadStatus", "typed", NilErr,
                 Built(config, ProductsAPIVersion,
                       Concat(<<"commerce/products/", productID, "/images/",
                                imageID, "/status">>)), {},
                 Get(config.APIKey),
                 "failed to get product image upload status", StatusOK),
             ctx, config, net)

AssignProductImageToVariant(ctx, config, request, net) ==
    Pipeline(Describe("AssignProductImageToVariant", "status",
                 Check(ctx = Nil, "context cannot be nil"),
                 Built(config, ProductsAPIVersion,
                       Concat(<<"commerce/products/", request.ProductID,
                                "/variants/", request.VariantID, "/image">>)),
                 {},
                 PostJSON(Marshal(<<<<"imageId", JStr(request.ImageID)>>>>),
                          config.APIKey),
                 "failed to assign image to variant", StatusNoContent),
             ctx, config, net)

ReorderProductImage(ctx, config, request, net) ==
    Pipeline(Describe("ReorderProductImage", "status", NilErr,
                 Built(config, ProductsAPIVersion,
                       Concat(<<"commerce/products/", request.ProductID,
                                "/images/", request.ImageID, "/order">>)),
                 {},
                 PostJSON(Marshal(<<<<"afterImageId",
                                      OmitNil(request.AfterImageID)>>>>),
                          config.APIKey),
                 "failed to reorder product image", StatusNoContent),
             ctx, config, net)

UpdateProduct(ctx, config, productID, request, net) ==
    Pipeline(Describe("UpdateProduct", "typed",
                 Check(productID = "", "productID is required"),
                 Built(config, ProductsAPIVersion,
                       "commerce/products/" \o productID), {},
                 PostJSON(Marshal(<<<<"name", OmitNil(request.Name)>>>>),
                          config.APIKey),
                 "failed to update product", StatusOK),
             ctx, config, net)

UpdateProductVariant(ctx, config, request, net) ==
    Pipeline(Describe("UpdateProductVariant", "typed", NilErr,
                 Built(config, ProductsAPIVersion,
                       Concat(<<"commerce/products/", request.ProductID,
                                "/variants/", request.VariantID>>)), {},
                 PostJSON(Marshal(<<<<"sku", OmitEmpty(request.SKU)>>>>),
                          config.APIKey),
                 "failed to update product variant", StatusOK),
             ctx, config, net)

UpdateProductImage(ctx, config, request, net) ==
    Pipeline(Describe("UpdateProductImage", "typed", NilErr,
                 Built(config, ProductsAPIVersion,
                       Concat(<<"commerce/products/", request.ProductID,
                                "/images/", request.ImageID>>)), {},
                 PostJSON(Marshal(<<<<"altText", JStr(request.AltText)>>>>),
                          config.APIKey),
                 "failed to update product image", StatusOK),
             ctx, config, net)

DeleteProduct(ctx, config, productID, net) ==
    Pipeline(Describe("DeleteProduct", "status",
                 Check(productID = "", "productID is required"),
                 Built(config, ProductsAPIVersion,
                       "commerce/products/" \o productID), {},
                 Delete(config.APIKey),
                 "failed to delete product", StatusNoContent),
             ctx, config, net)

DeleteProductVariant(ctx, config, productID, variantID, net) ==
    Pipeline(Describe("DeleteProductVariant", "status", NilErr,
                 Built(config, ProductsAPIVersion,
                       Concat(<<"commerce/products/", productID,
                                "/variants/", variantID>>)), {},
                 Delete(config.APIKey),
                 "failed to delete product variant", StatusNoContent),
             ctx, config, net)

DeleteProductImage(ctx, config, productID, imageID, net) ==
    Pipeline(Describe("DeleteProductImage", "status", NilErr,
                 Built(config, ProductsAPIVersion,
                       Concat(<<"commerce/products/", productID,
                                "/images/", imageID>>)), {},
                 Delete(config.APIKey),
                 "failed to delete product image", StatusNoContent),
             ctx, config, net)

(***************************************************************************)
(* package inventory                                                       *)
(***************************************************************************)
InventoryAPIVersion == "1.0"

\* if config.IdempotencyKey != nil { req.Header.Set("Idempotency-Key", ...) }
PostJSONIdempotent(text, credential) ==
    [PostJSON(text, credential) EXCEPT !.idempotent = TRUE]

RetrieveAllInventory(ctx, config, params, net) ==
    Pipeline(Describe("RetrieveAllInventory", "typed", InvalidParams(params),
                 Production(InventoryAPIVersion, "commerce/inventory"),
                 QuerySet("cursor", Str(params.Cursor)),
                 Get(config.APIKey),
                 "failed to execute request", StatusOK),
             ctx, config, net)

RetrieveSpecificInventoryMutantRejectsFifty(ctx, config, inventoryIDs, net) ==
    Pipeline(Describe("RetrieveSpecificInventory", "typed",
                 FirstError(<<Check(inventoryIDs = 0,
                                    "no inventory IDs provided"),
                              Check(inventoryIDs >= 50,
                                    "cannot retrieve more than 50 inventory IDs")>>),
                 Production(InventoryAPIVersion,
                            "commerce/inventory/" \o JoinIDs(inventoryIDs, ",")),
                 {}, Get(config.APIKey),
                 "failed to retrieve specific inventory", StatusOK),
             ctx, config, net)

\* inventoryIDs is the list id1 .. idn, given by its length n
RetrieveSpecificInventory(ctx, config, inventoryIDs, net) ==
    Pipeline(Describe("RetrieveSpecificInventory", "typed",
                 FirstError(<<Check(inventoryIDs = 0,
                                    "no inventory IDs provided"),
                              Check(inventoryIDs > 50,
                                    "cannot retrieve more than 50 inventory IDs")>>),
                 Production(InventoryAPIVersion,
                            "commerce/inventory/" \o JoinIDs(inventoryIDs, ",")),
                 {}, Get(config.APIKey),
                 "failed to retrieve specific inventory", StatusOK),
             ctx, config, net)

AdjustStockQuantities(ctx, config, request, net) ==
    Pipeline(Describe("AdjustStockQuantities", "status", NilErr,
                 Production(InventoryAPIVersion,
                            "commerce/inventory/adjustments"), {},
                 PostJSONIdempotent(
                     "{\"adjustments\":["
                        \o Marshal(<<<<"inventoryId", JStr(request.InventoryID)>>,
                                     <<"delta", JNum(request.Delta)>>>>)
                        \o "]}",
                     config.APIKey),
                 "failed to adjust stock quantities", StatusNoContent),
             ctx, config, net)

(***************************************************************************)
(* package orders                                                          *)
(***************************************************************************)
OrdersAPIVersion == "1.0"

CreateOrder(ctx, config, request, net) ==
    Pipeline(Describe("CreateOrder", "typed", NilErr,
                 Production(OrdersAPIVersion, "commerce/orders"), {},
                 PostJSONIdempotent(
                     "{\"items\":["
                        \o Marshal(<<<<"productId", JStr(request.ProductID)>>,
                                     <<"variantId", JStr(request.VariantID)>>,
                                     <<"quantity", JNum(request.Quantity)>>>>)
                        \o "]}",
                     config.APIKey),
                 "failed to create order", StatusCreated),
             ctx, config, net)

FulfillOrder(ctx, config, orderID, request, net) ==
    Pipeline(Describe("FulfillOrder", "status", NilErr,
                 Production(OrdersAPIVersion,
                            Concat(<<"commerce/orders/", orderID,
                                     "/fulfillments">>)), {},
                 PostJSON(Marshal(<<<<"trackingNumber",
                                      OmitEmpty(request.TrackingNumber)>>,
                                    <<"carrier", OmitEmpty(request.Carrier)>>>>),
                          config.APIKey),
                 "failed to fulfill order", StatusNoContent),
             ctx, config, net)

RetrieveAllOrders(ctx, config, params, net) ==
    Pipeline(Describe("RetrieveAllOrders", "typed", InvalidParams(params),
                 Production(OrdersAPIVersion, "commerce/orders"),
                 QuerySet("cursor", Str(params.Cursor))
                    \cup QuerySet("modifiedAfter", params.ModifiedAfter)
                    \cup QuerySet("modifiedBefore", params.ModifiedBefore)
                    \cup QuerySet("fulfillmentStatus", Str(params.Status)),
                 Get(config.APIKey),
                 "failed to retrieve all orders", StatusOK),
             ctx, config, net)

RetrieveSpecificOrder(ctx, config, orderID, net) ==
    Pipeline(Describe("RetrieveSpecificOrder", "typed", NilErr,
                 Production(OrdersAPIVersion, "commerce/orders/" \o orderID),
                 {}, Get(config.APIKey),
                 "failed to retrieve order", StatusOK),
             ctx, config, net)

(***************************************************************************)
(* package profiles                                                        *)
(***************************************************************************)
ProfilesAPIVersion == "1.0"

RetrieveAllProfiles(ctx, config, params, net) ==
    Pipeline(Describe("RetrieveAllProfiles", "typed", InvalidParams(params),
                 Built(config, ProfilesAPIVersion, "profiles"),
                 QuerySet("cursor", Str(params.Cursor))
                    \cup QuerySet("filter", Str(params.Filter))
                    \cup QuerySet("sortDirection", Str(params.SortDirection))
                    \cup QuerySet("sortField", Str(params.SortField)),
                 Get(config.APIKey),
                 "failed to retrieve all profiles", StatusOK),
             ctx, config, net)

\* RetrieveSpecificProfiles with the cap its sibling packages have
RetrieveSpecificProfilesMutantCapsAtFifty(ctx, config, profileIDs, net) ==
    Pipeline(Describe("RetrieveSpecificProfiles", "typed",
                 FirstError(<<Check(profileIDs = 0,
                                    "profileIDs cannot be empty"),
                              Check(profileIDs > 50,
                                    "profileIDs cannot exceed 50 IDs")>>),
                 Built(config, ProfilesAPIVersion,
                       "profiles/" \o JoinIDs(profileIDs, ",")), {},
                 Get(config.APIKey),
                 "failed to retrieve specific profiles", StatusOK),
             ctx, config, net)

\* profileIDs is the list id1 .. idn, given by its length n
RetrieveSpecificProfiles(ctx, config, profileIDs, net) ==
    Pipeline(Describe("RetrieveSpecificProfiles", "typed",
                 Check(profileIDs = 0, "profileIDs cannot be empty"),
                 Built(config, ProfilesAPIVersion,
                       "profiles/" \o JoinIDs(profileIDs, ",")), {},
                 Get(config.APIKey),
                 "failed to retrieve specific profiles", StatusOK),
             ctx, config, net)

(***************************************************************************)
(* package transactions                                                    *)
(***************************************************************************)
TransactionsAPIVersion == "1.0"

\* RetrieveAllTransactions without its modifiedBefore
RetrieveAllTransactionsMutantDropsModifiedBefore(ctx, config, params, net) ==
    Pipeline(Describe("RetrieveAllTransactions", "typed",
                 InvalidParams(params),
                 Built(config, TransactionsAPIVersion, "commerce/transactions"),
                 QuerySet("cursor", Str(params.Cursor))
                    \cup QuerySet("modifiedAfter", params.ModifiedAfter),
                 Get(config.APIKey),
                 "failed to execute request", StatusOK),
             ctx, config, net)

RetrieveAllTransactions(ctx, config, params, net) ==
    Pipeline(Describe("RetrieveAllTransactions", "typed",
                 InvalidParams(params),
                 Built(config, TransactionsAPIVersion, "commerce/transactions"),
                 QuerySet("cursor", Str(params.Cursor))
                    \cup QuerySet("modifiedAfter", params.ModifiedAfter)
                    \cup QuerySet("modifiedBefore", params.ModifiedBefore),
                 Get(config.APIKey),
                 "failed to execute request", StatusOK),
             ctx, config, net)

\* transactionIDs is the list id1 .. idn, given by its length n;
\* url.PathEscape turns each joining comma into %2C
RetrieveSpecificTransactions(ctx, config, transactionIDs, net) ==
    Pipeline(Describe("RetrieveSpecificTransactions", "typed",
                 FirstError(<<Check(transactionIDs = 0,
                                    "transactionIDs cannot be empty"),
                              Check(transactionIDs > 50,
                                    "transactionIDs cannot exceed 50 IDs")>>),
                 Built(config, TransactionsAPIVersion,
                       "commerce/transactions/"
                          \o JoinIDs(transactionIDs, "%2C")), {},
                 Get(config.APIKey),
                 "failed to execute request", StatusOK),
             ctx, config, net)

(***************************************************************************)
(* package webhooks                                                        *)
(***************************************************************************)
WebhooksAPIVersion == "1.0"

TokenRequired(config) ==
    Check(config.AccessToken = "", "access token is required")
SubscriptionRequired(subscriptionID) ==
    Check(subscriptionID = "", "subscriptionID cannot be empty")

\* a []string: nil, or its items
TopicsText(topics) ==
    IF topics.nil THEN "null"
    ELSE "[" \o JoinNonEmpty([i \in 1..Len(topics.items) |->
                                "\"" \o topics.items[i] \o "\""], ",") \o "]"

WebhookSubscriptionRequestText(request) ==
    Concat(<<"{\"endpointUrl\":\"", request.EndpointURL, "\",\"topics\":",
             TopicsText(request.Topics), "}">>)

CreateWebhookSubscription(ctx, config, request, net) ==
    Pipeline(Describe("CreateWebhookSubscription", "typed",
                 FirstError(<<TokenRequired(config),
                              Check(Len(request.Topics.items) = 0,
                                    "topics cannot be empty")>>),
                 Production(WebhooksAPIVersion, "webhook_subscriptions"), {},
                 PostJSON(WebhookSubscriptionRequestText(request),
                          config.AccessToken),
                 "failed to create webhook subscription", StatusCreated),
             ctx, config, net)

UpdateWebhookSubscription(ctx, config, subscriptionID, request, net) ==
    Pipeline(Describe("UpdateWebhookSubscription", "typed",
                 FirstError(<<TokenRequired(config),
                              SubscriptionRequired(subscriptionID),
                              Check(~request.Topics.nil
                                       /\ Len(request.Topics.items) = 0,
                                    "topics cannot be an empty array")>>),
                 Production(WebhooksAPIVersion,
                            "webhook_subscriptions/" \o subscriptionID), {},
                 PostJSON(WebhookSubscriptionRequestText(request),
                          config.AccessToken),
                 "failed to update webhook subscription", StatusOK),
             ctx, config, net)

RetrieveAllWebhookSubscriptions(ctx, config, net) ==
    Pipeline(Describe("RetrieveAllWebhookSubscriptions", "typed",
                 TokenRequired(config),
                 Production(WebhooksAPIVersion, "webhook_subscriptions"), {},
                 Get(config.AccessToken),
                 "failed to retrieve webhook subscriptions", StatusOK),
             ctx, config, net)

RetrieveSpecificWebhookSubscription(ctx, config, subscriptionID, net) ==
    Pipeline(Describe("RetrieveSpecificWebhookSubscription", "typed",
                 FirstError(<<TokenRequired(config),
                              SubscriptionRequired(subscriptionID)>>),
                 Production(WebhooksAPIVersion,
                            "webhook_subscriptions/" \o subscriptionID), {},
                 Get(config.AccessToken),
                 "failed to retrieve webhook subscription", StatusOK),
             ctx, config, net)

DeleteWebhookSubscription(ctx, config, subscriptionID, net) ==
    Pipeline(Describe("DeleteWebhookSubscription", "status",
                 FirstError(<<TokenRequired(config),
                              SubscriptionRequired(subscriptionID)>>),
                 Production(WebhooksAPIVersion,
                            "webhook_subscriptions/" \o subscriptionID), {},
                 Delete(config.AccessToken),
                 "failed to delete webhook subscription", StatusNoContent),
             ctx, config, net)

SendTestNotification(ctx, config, subscriptionID, request, net) ==
    Pipeline(Describe("SendTestNotification", "typed",
                 FirstError(<<TokenRequired(config),
                              SubscriptionRequired(subscriptionID),
                              Check(request.Topic = "", "topic is required")>>),
                 Production(WebhooksAPIVersion,
                            Concat(<<"webhook_subscriptions/", subscriptionID,
                                     "/actions/sendTestNotification">>)), {},
                 PostJSON(Marshal(<<<<"topic", JStr(request.Topic)>>>>),
                          config.AccessToken),
                 "failed to send test notification", StatusOK),
             ctx, config, net)

\* a POST without a body that still sets Content-Type
RotateSubscriptionSecret(ctx, config, subscriptionID, net) ==
    Pipeline(Describe("RotateSubscriptionSecret", "typed",
                 FirstError(<<TokenRequired(config),
                              SubscriptionRequired(subscriptionID)>>),
                 Production(WebhooksAPIVersion,
                            Concat(<<"webhook_subscriptions/", subscriptionID,
                                     "/actions/rotateSecret">>)), {},
                 [PostJSON("", config.AccessToken) EXCEPT !.body = EmptyBody],
                 "failed to rotate subscription secret", StatusOK),
             ctx, config, net)

(***************************************************************************)
(* The inputs callers draw from.                                           *)
(***************************************************************************)
Contexts == {"ctx", Nil}
IDSamples == {"", "123"}

\* lengths of the ID lists handed to the RetrieveSpecific operations
IDCounts == {0, 1, 2} \cup (49..MaxIDs)

ParamSamples ==
    [Cursor : {"", "abc123"},
     Filter : {"", "hasAccount"},
     ModifiedAfter : {<<>>, <<"2024-01-15", "T", "10:30:00", "Z">>,
                      <<"not-a-date">>},
     ModifiedBefore : {<<>>, <<"2024-06-30", "T", "10:30:00", "+02:00">>,
                       <<"2024-06-30">>},
     SortDirection : {"", "asc"},
     SortField : {"", "createdOn"},
     Status : {"", "PENDING"},
     Type : {<<>>, <<"PHYSICAL">>, <<"PHYSICAL", ",", "DIGITAL">>,
             <<"INVALID">>}]

FieldsSet(params) ==
    Cardinality({k \in {"Cursor", "Filter", "SortDirection", "SortField",
                        "Status"} : params[k] # ""})
    + Cardinality({k \in {"ModifiedAfter", "ModifiedBefore", "Type"} :
                        params[k] # <<>>})

ListParams == {params \in ParamSamples : FieldsSet(params) <= MaxParamFields}

Files == {"image.png", "missing.png", "images/"}

TopicsSamples ==
    {[nil |-> TRUE, items |-> <<>>], [nil |-> FALSE, items |-> <<>>],
     [nil |-> FALSE, items |-> <<"order.create">>]}

(***************************************************************************)
(* Calls of the exposed operations.  A call that panics leaves the caller  *)
(* aborted; every other call returns.                                      *)
(***************************************************************************)
Completes(op, ctx, config, in, out) ==
    /\ pc' = IF out.panicked THEN "aborted" ELSE "returned"
    /\ call' = [op |-> op, ctx |-> ctx, config |-> config, in |-> in,
                shape |-> out.shape, version |-> out.version,
                path |-> out.path, req |-> out.req,
                transportCalls |-> out.transportCalls, resp |-> out.resp,
                bodyRead |-> out.bodyRead, bodyClosed |-> out.bodyClosed,
                fileOpened |-> out.fileOpened, fileClosed |-> out.fileClosed,
                result |-> out.result,
                code |-> out.code, err |-> out.err,
                panicked |-> out.panicked]

CallCreateProduct ==
    /\ pc = "idle"
    /\ \E ctx \in Contexts, config \in Configs, net \in TransportAnswers,
          request \in [Type : {"PHYSICAL"}, StorePageID : {"page-1"},
                       Name : {"", "Test Product"}] :
        Completes("CreateProduct", ctx, config, [request |-> request],
                  CreateProduct(ctx, config, request, net))

CallCreateProductVariant ==
    /\ pc = "idle"
    /\ \E ctx \in Contexts, config \in Configs, net \in TransportAnswers,
          request \in [ProductID : IDSamples, SKU : {"SKU-1"}] :
        Completes("CreateProductVariant", ctx, config, [request |-> request],
                  CreateProductVariant(ctx, config, request, net))

CallUploadProductImage ==
    /\ pc = "idle"
    /\ \E ctx \in Contexts, config \in Configs, net \in TransportAnswers,
          productID \in IDSamples, filePath \in Files :
        Completes("UploadProductImage", ctx, config,
                  [productID |-> productID, filePath |-> filePath],
                  UploadProductImage(ctx, config, productID, filePath, net))

CallRetrieveAllStorePages ==
    /\ pc = "idle"
    /\ \E ctx \in Contexts, config \in Configs, net \in TransportAnswers,
          params \in ListParams :
        Completes("RetrieveAllStorePages", ctx, config, [params |-> params],
                  RetrieveAllStorePages(ctx, config, params, net))

CallRetrieveAllProducts ==
    /\ pc = "idle"
    /\ \E ctx \in Contexts, config \in Configs, net \in TransportAnswers,
          params \in ListParams :
        Completes("RetrieveAllProducts", ctx, config, [params |-> params],
                  RetrieveAllProducts(ctx, config, params, net))

CallRetrieveSpecificProducts ==
    /\ pc = "idle"
    /\ \E ctx \in Contexts, config \in Configs, net \in TransportAnswers,
          productIDs \in IDCounts :
        Completes("RetrieveSpecificProducts", ctx, config,
                  [count |-> productIDs],
                  RetrieveSpecificProducts(ctx, config, productIDs, net))

CallGetProductImageUploadStatus ==
    /\ pc = "idle"
    /\ \E ctx \in Contexts, config \in Configs, net \in TransportAnswers,
          productID \in IDSamples, imageID \in IDSamples :
        Completes("GetProductImageUploadStatus", ctx, config,
                  [productID |-> productID, imageID |-> imageID],
                  GetProductImageUploadStatus(ctx, config, productID,
                                              imageID, net))

CallAssignProductImageToVariant ==
    /\ pc = "idle"
    /\ \E ctx \in Contexts, config \in Configs, net \in TransportAnswers,
          request \in [ProductID : IDSamples, VariantID : IDSamples,
                       ImageID : {"img-1"}] :
        Completes("AssignProductImageToVariant", ctx, config,
                  [request |-> request],
                  AssignProductImageToVariant(ctx, config, request, net))

CallReorderProductImage ==
    /\ pc = "idle"
    /\ \E ctx \in Contexts, config \in Configs, net \in TransportAnswers,
          request \in [ProductID : IDSamples, ImageID : {"img-1"},
                       AfterImageID : {Nil, "img-2"}] :
        Completes("ReorderProductImage", ctx, config, [request |-> request],
                  ReorderProductImage(ctx, config, request, net))

CallUpdateProduct ==
    /\ pc = "idle"
    /\ \E ctx \in Contexts, config \in Configs, net \in TransportAnswers,
          productID \in IDSamples, request \in [Name : {Nil, "New Name"}] :
        Completes("UpdateProduct", ctx, config,
                  [productID |-> productID, request |-> request],
                  UpdateProduct(ctx, config, productID, request, net))

CallUpdateProductVariant ==
    /\ pc = "idle"
    /\ \E ctx \in Contexts, config \in Configs, net \in TransportAnswers,
          request \in [ProductID : IDSamples, VariantID : {"v-1"},
                       SKU : {"", "SKU-2"}] :
        Completes("UpdateProductVariant", ctx, config, [request |-> request],
                  UpdateProductVariant(ctx, config, request, net))

CallUpdateProductImage ==
    /\ pc = "idle"
    /\ \E ctx \in Contexts, config \in Configs, net \in TransportAnswers,
          request \in [ProductID : IDSamples, ImageID : {"img-1"},
                       AltText : {"Front view"}] :
        Completes("UpdateProductImage", ctx, config, [request |-> request],
                  UpdateProductImage(ctx, config, request, net))

CallDeleteProduct ==
    /\ pc = "idle"
    /\ \E ctx \in Contexts, config \in Configs, net \in TransportAnswers,
          productID \in IDSamples :
        Completes("DeleteProduct", ctx, config, [productID |-> productID],
                  DeleteProduct(ctx, config, productID, net))

CallDeleteProductVariant ==
    /\ pc = "idle"
    /\ \E ctx \in Contexts, config \in Configs, net \in TransportAnswers,
          productID \in IDSamples, variantID \in IDSamples :
        Completes("DeleteProductVariant", ctx, config,
                  [productID |-> productID, variantID |-> variantID],
                  DeleteProductVariant(ctx, config, productID, variantID, net))

CallDeleteProductImage ==
    /\ pc = "idle"
    /\ \E ctx \in Contexts, config \in Configs, net \in TransportAnswers,
          productID \in IDSamples, imageID \in IDSamples :
        Completes("DeleteProductImage", ctx, config,
                  [productID |-> productID, imageID |-> imageID],
                  DeleteProductImage(ctx, config, productID, imageID, net))

CallRetrieveAllInventory ==
    /\ pc = "idle"
    /\ \E ctx \in Contexts, config \in Configs, net \in TransportAnswers,
          params \in ListParams :
        Completes("RetrieveAllInventory", ctx, config, [params |-> params],
                  RetrieveAllInventory(ctx, config, params, net))

CallRetrieveSpecificInventory ==
    /\ pc = "idle"
    /\ \E ctx \in Contexts, config \in Configs, net \in TransportAnswers,
          inventoryIDs \in IDCounts :
        Completes("RetrieveSpecificInventory", ctx, config,
                  [count |-> inventoryIDs],
                  RetrieveSpecificInventory(ctx, config, inventoryIDs, net))

CallAdjustStockQuantities ==
    /\ pc = "idle"
    /\ \E ctx \in Contexts, config \in Configs, net \in TransportAnswers,
          request \in [InventoryID : {"inv-1"}, Delta : {5}] :
        Completes("AdjustStockQuantities", ctx, config, [request |-> request],
                  AdjustStockQuantities(ctx, config, request, net))

CallCreateOrder ==
    /\ pc = "idle"
    /\ \E ctx \in Contexts, config \in Configs, net \in TransportAnswers,
          request \in [ProductID : {"123"}, VariantID : {"v-1"},
                       Quantity : {1}] :
        Completes("CreateOrder", ctx, config, [request |-> request],
                  CreateOrder(ctx, config, request, net))

CallFulfillOrder ==
    /\ pc = "idle"
    /\ \E ctx \in Contexts, config \in Configs, net \in TransportAnswers,
          orderID \in IDSamples,
          request \in [TrackingNumber : {"", "1Z999"}, Carrier : {"UPS"}] :
        Completes("FulfillOrder", ctx, config,
                  [orderID |-> orderID, request |-> request],
                  FulfillOrder(ctx, config, orderID, request, net))

CallRetrieveAllOrders ==
    /\ pc = "idle"
    /\ \E ctx \in Contexts, config \in Configs, net \in TransportAnswers,
          params \in ListParams :
        Completes("RetrieveAllOrders", ctx, config, [params |-> params],
                  RetrieveAllOrders(ctx, config, params, net))

CallRetrieveSpecificOrder ==
    /\ pc = "idle"
    /\ \E ctx \in Contexts, config \in Configs, net \in TransportAnswers,
          orderID \in IDSamples :
        Completes("RetrieveSpecificOrder", ctx, config, [orderID |-> orderID],
                  RetrieveSpecificOrder(ctx, config, orderID, net))

CallRetrieveAllProfiles ==
    /\ pc = "idle"
    /\ \E ctx \in Contexts, config \in Configs, net \in TransportAnswers,
          params \in ListParams :
        Completes("RetrieveAllProfiles", ctx, config, [params |-> params],
                  RetrieveAllProfiles(ctx, config, params, net))

CallRetrieveSpecificProfiles ==
    /\ pc = "idle"
    /\ \E ctx \in Contexts, config \in Configs, net \in TransportAnswers,
          profileIDs \in IDCounts :
        Completes("RetrieveSpecificProfiles", ctx, config,
                  [count |-> profileIDs],
                  RetrieveSpecificProfiles(ctx, config, profileIDs, net))

CallRetrieveAllTransactions ==
    /\ pc = "idle"
    /\ \E ctx \in Contexts, config \in Configs, net \in TransportAnswers,
          params \in ListParams :
        Completes("RetrieveAllTransactions", ctx, config, [params |-> params],
                  RetrieveAllTransactions(ctx, config, params, net))

CallRetrieveSpecificTransactions ==
    /\ pc = "idle"
    /\ \E ctx \in Contexts, config \in Configs, net \in TransportAnswers,
          transactionIDs \in IDCounts :
        Completes("RetrieveSpecificTransactions", ctx, config,
                  [count |-> transactionIDs],
                  RetrieveSpecificTransactions(ctx, config, transactionIDs,
                                               net))

CallCreateWebhookSubscription ==
    /\ pc = "idle"
    /\ \E ctx \in Contexts, config \in Configs, net \in TransportAnswers,
          request \in [EndpointURL : {"https://example.com/webhook"},
                       Topics : TopicsSamples] :
        Completes("CreateWebhookSubscription", ctx, config,
                  [request |-> request],
                  CreateWebhookSubscription(ctx, config, request, net))

CallUpdateWebhookSubscription ==
    /\ pc = "idle"
    /\ \E ctx \in Contexts, config \in Configs, net \in TransportAnswers,
          subscriptionID \in IDSamples,
          request \in [EndpointURL : {"https://example.com/webhook"},
                       Topics : TopicsSamples] :
        Completes("UpdateWebhookSubscription", ctx, config,
                  [subscriptionID |-> subscriptionID, request |-> request],
                  UpdateWebhookSubscription(ctx, config, subscriptionID,
                                            request, net))

CallRetrieveAllWebhookSubscriptions ==
    /\ pc = "idle"
    /\ \E ctx \in Contexts, config \in Configs, net \in TransportAnswers :
        Completes("RetrieveAllWebhookSubscriptions", ctx, config,
                  [none |-> TRUE],
                  RetrieveAllWebhookSubscriptions(ctx, config, net))

CallRetrieveSpecificWebhookSubscription ==
    /\ pc = "idle"
    /\ \E ctx \in Contexts, config \in Configs, net \in TransportAnswers,
          subscriptionID \in IDSamples :
        Completes("RetrieveSpecificWebhookSubscription", ctx, config,
                  [subscriptionID |-> subscriptionID],
                  RetrieveSpecificWebhookSubscription(ctx, config,
                                                      subscriptionID, net))

CallDeleteWebhookSubscription ==
    /\ pc = "idle"
    /\ \E ctx \in Contexts, config \in Configs, net \in TransportAnswers,
          subscriptionID \in IDSamples :
        Completes("DeleteWebhookSubscription", ctx, config,
                  [subscriptionID |-> subscriptionID],
                  DeleteWebhookSubscription(ctx, config, subscriptionID, net))

CallSendTestNotification ==
    /\ pc = "idle"
    /\ \E ctx \in Contexts, config \in Configs, net \in TransportAnswers,
          subscriptionID \in IDSamples,
          request \in [Topic : {"", "order.create"}] :
        Completes("SendTestNotification", ctx, config,
                  [subscriptionID |-> subscriptionID, request |-> request],
                  SendTestNotification(ctx, config, subscriptionID, request,
                                       net))

CallRotateSubscriptionSecret ==
    /\ pc = "idle"
    /\ \E ctx \in Contexts, config \in Configs, net \in TransportAnswers,
          subscriptionID \in IDSamples :
        Completes("RotateSubscriptionSecret", ctx, config,
                  [subscriptionID |-> subscriptionID],
                  RotateSubscriptionSecret(ctx, config, subscriptionID, net))

Next ==
    \/ CallCreateProduct
    \/ CallCreateProductVariant
    \/ CallUploadProductImage
    \/ CallRetrieveAllStorePages
    \/ CallRetrieveAllProducts
    \/ CallRetrieveSpecificProducts
    \/ CallGetProductImageUploadStatus
    \/ CallAssignProductImageToVariant
    \/ CallReorderProductImage
    \/ CallUpdateProduct
    \/ CallUpdateProductVariant
    \/ CallUpdateProductImage
    \/ CallDeleteProduct
    \/ CallDeleteProductVariant
    \/ CallDeleteProductImage
    \/ CallRetrieveAllInventory
    \/ CallRetrieveSpecificInventory
    \/ CallAdjustStockQuantities
    \/ CallCreateOrder
    \/ CallFulfillOrder
    \/ CallRetrieveAllOrders
    \/ CallRetrieveSpecificOrder
    \/ CallRetrieveAllProfiles
    \/ CallRetrieveSpecificProfiles
    \/ CallRetrieveAllTransactions
    \/ CallRetrieveSpecificTransactions
    \/ CallCreateWebhookSubscription
    \/ CallUpdateWebhookSubscription
    \/ CallRetrieveAllWebhookSubscriptions
    \/ CallRetrieveSpecificWebhookSubscription
    \/ CallDeleteWebhookSubscription
    \/ CallSendTestNotification
    \/ CallRotateSubscriptionSecret
    \/ Return

Spec == Init /\ [][Next]_vars

(***************************************************************************)
(* Properties of the helpers of package common, checked under SpecCommon.  *)
(***************************************************************************)
ValidateReturned == pc = "returned" /\ call.op = "ValidateQueryParams"
ParseReturned == pc = "returned" /\ call.op = "ParseErrorResponse"

\* C1: whenever Cursor is non-empty and at least one of Filter,
\* ModifiedAfter, ModifiedBefore, SortDirection, SortField, Status or Type is
\* non-empty, ValidateQueryParams returns the cursor-exclusivity error.
C1_CursorExcludesEveryOtherField ==
    ValidateReturned =>
        LET p == call.params
        IN  (/\ p.Cursor # ""
             /\ \/ p.Filter # "" \/ p.ModifiedAfter # <<>>
                \/ p.ModifiedBefore # <<>> \/ p.SortDirection # ""
                \/ p.SortField # "" \/ p.Status # "" \/ p.Type # <<>>)
            => call.err = CursorErr

\* the body is one json.Unmarshal decodes into an APIError: the JSON null or
\* an object whose type, subtype, message and detail members, where present,
\* are strings or null
DecodesAsAPIError(body) ==
    \/ body.kind = "null"
    \/ /\ body.kind = "object"
       /\ \A k \in {"type", "subtype", "message", "detail"} :
            body.obj[k].t \in {"absent", "null", "string"}

\* the text of a member of the body, empty when it is absent or null
MemberValue(body, k) ==
    IF body.obj[k].t = "string" THEN body.obj[k].v ELSE ""

\* C2: for every body that decodes as an API error the error is non-nil and
\* its text is, in this order, the endpoint name, the URL, the status code,
\* the type, the subtype segment, the message and the detail segment, where
\* the subtype and the detail segment (label and value) are there exactly
\* when the field is non-empty.
C2_ErrorTextInFixedOrder ==
    (ParseReturned /\ DecodesAsAPIError(call.body)) =>
        LET subtype == MemberValue(call.body, "subtype")
            detail == MemberValue(call.body, "detail")
        IN  /\ call.err # NilErr
            /\ call.err =
                call.endpoint \o " url: " \o call.url
                    \o ": status: " \o ToString(call.statusCode)
                    \o ", type: " \o MemberValue(call.body, "type")
                    \o (IF subtype # "" THEN ", subtype: " \o subtype ELSE "")
                    \o ", message: " \o MemberValue(call.body, "message")
                    \o (IF detail # "" THEN ", detail: " \o detail ELSE "")

\* a body with a subtype and no detail was parsed: the text is the one that
\* TestParseErrorResponse ("error with subtype") expects
C2_Witness ==
    /\ ParseReturned
    /\ call.body.raw
        = "{\"type\":\"ERROR_TYPE\",\"subtype\":\"SUB_ERROR\",\"message\":\"Error occurred\"}"
    /\ call.statusCode = 400
    /\ call.err
        = "TestEndpoint url: http://example.com/api: status: 400, type: ERROR_TYPE, subtype: SUB_ERROR, message: Error occurred"

\* C3: for every body that is not valid JSON or does not have the shape of
\* an API error (json.Unmarshal rejects it) the error carries the endpoint
\* name and the status code and nothing else: its text is the same whatever
\* the body holds.
C3_GenericErrorWithoutBody ==
    (ParseReturned /\ ~DecodesAsAPIError(call.body)) =>
        call.err = call.endpoint
                     \o ": error unmarshalling response body: status: "
                     \o ToString(call.statusCode)

\* the undecodable body of TestParseErrorResponse ("invalid json") and a
\* body of the wrong shape were parsed
C3_Witness ==
    /\ ParseReturned
    /\ \/ call.body.raw = "invalid json"
       \/ call.body.raw = "{\"type\":7,\"message\":\"Error occurred\"}"
    /\ call.statusCode = 400
    /\ call.err = "TestEndpoint: error unmarshalling response body: status: 400"

\* C6: with Cursor empty and exactly one of ModifiedAfter and ModifiedBefore
\* non-empty, validation fails with the pairing error, whatever the other
\* fields hold.
C6_LoneModifiedBoundFails ==
    ValidateReturned =>
        LET p == call.params
        IN  (/\ p.Cursor = ""
             /\ (p.ModifiedAfter # <<>>) # (p.ModifiedBefore # <<>>))
            => call.err = PairingErr

\* a lone ModifiedBefore next to an invalid type and a filter
C6_Witness ==
    /\ ValidateReturned
    /\ call.params.Cursor = ""
    /\ call.params.ModifiedAfter = <<>>
    /\ call.params.ModifiedBefore # <<>>
    /\ call.params.Type = <<"INVALID">>
    /\ call.params.Filter # ""
    /\ call.err = PairingErr

\* C7: with Cursor and Type empty and both bounds non-empty, validation
\* passes exactly when both are valid timestamps; an invalid ModifiedAfter
\* fails with the error naming modifiedAfter, and an invalid ModifiedBefore
\* next to a valid ModifiedAfter with the error naming modifiedBefore.
C7_TimestampsValidated ==
    ValidateReturned =>
        LET p == call.params
            okAfter == ParsesRFC3339(p.ModifiedAfter)
            okBefore == ParsesRFC3339(p.ModifiedBefore)
        IN  (/\ p.Cursor = "" /\ p.Type = <<>>
             /\ p.ModifiedAfter # <<>> /\ p.ModifiedBefore # <<>>)
            => /\ (call.err = NilErr) <=> (okAfter /\ okBefore)
               /\ ~okAfter =>
                    call.err = "modifiedAfter is not a valid ISO 8601 UTC date-time string: "
                                 \o TimeParseErr(p.ModifiedAfter)
               /\ (okAfter /\ ~okBefore) =>
                    call.err = "modifiedBefore is not a valid ISO 8601 UTC date-time string: "
                                 \o TimeParseErr(p.ModifiedBefore)

\* both bounds are invalid and the error names modifiedAfter
C7_Witness ==
    /\ ValidateReturned
    /\ call.params.Cursor = "" /\ call.params.Type = <<>>
    /\ call.params.ModifiedAfter = <<"invalid-date">>
    /\ call.params.ModifiedBefore = <<"2024-01-15", "T", "10:30:00">>
    /\ call.err = "modifiedAfter is not a valid ISO 8601 UTC date-time string: parsing time \"invalid-date\""

\* the entries of a type filter: split on commas, each entry trimmed
RECURSIVE Entries(_, _)
Entries(tokens, cur) ==
    IF tokens = <<>> THEN <<Concat(TrimSpace(cur))>>
    ELSE IF Head(tokens) = ","
    THEN <<Concat(TrimSpace(cur))>> \o Entries(Tail(tokens), <<>>)
    ELSE Entries(Tail(tokens), Append(cur, Head(tokens)))

\* C8: validateTypeParam accepts a type filter exactly when every entry is
\* PHYSICAL or DIGITAL and no entry occurs twice; it fails with the
\* invalid-type error when some entry is neither, and with the duplicate
\* error when all entries are valid and one is repeated.
C8_TypeFilterAccepted ==
    (pc = "returned" /\ call.op = "validateTypeParam") =>
        LET e == Entries(call.productType, <<>>)
            allValid == \A i \in 1..Len(e) : e[i] \in {"PHYSICAL", "DIGITAL"}
            repeated == \E i, j \in 1..Len(e) : i # j /\ e[i] = e[j]
        IN  /\ (call.err = NilErr) <=> (allValid /\ ~repeated)
            /\ ~allValid => call.err = TypeInvalidErr(call.productType)
            /\ (allValid /\ repeated)
                    => call.err = TypeDuplicateErr(call.productType)
            /\ call.productType = <<"PHYSICAL", ",", " ", "DIGITAL">>
                    => call.err = NilErr

\* the duplicate of TestValidateTypeParam was rejected as a duplicate
C8_Witness ==
    /\ pc = "returned" /\ call.op = "validateTypeParam"
    /\ call.productType = <<"PHYSICAL", ",", "PHYSICAL">>
    /\ call.err = "duplicate types found in: PHYSICAL,PHYSICAL"

\* C9: BuildBaseURL returns override/version/path when BaseURL is set and
\* https://api.squarespace.com/version/path otherwise, also for an empty
\* version or path (the slashes stay), and its error is always nil.
C9_BaseURLExact ==
    (pc = "returned" /\ call.op = "BuildBaseURL") =>
        /\ call.err = NilErr
        /\ call.config.BaseURL # "" =>
             call.url = call.config.BaseURL \o "/" \o call.version
                            \o "/" \o call.path
        /\ call.config.BaseURL = "" =>
             call.url = "https://api.squarespace.com/" \o call.version
                            \o "/" \o call.path

\* an override with an empty version: the double slash of TestBuildBaseURL
C9_Witness ==
    /\ pc = "returned" /\ call.op = "BuildBaseURL"
    /\ call.config.BaseURL = "http://localhost:8080"
    /\ call.version = "" /\ call.path = "commerce/inventory"
    /\ call.url = "http://localhost:8080//commerce/inventory"


(***************************************************************************)
(* Claims about the exposed operations (specification Spec).               *)
(***************************************************************************)
StatusOperations ==
    {"AssignProductImageToVariant", "ReorderProductImage", "DeleteProduct",
     "DeleteProductVariant", "DeleteProductImage", "FulfillOrder",
     "AdjustStockQuantities", "DeleteWebhookSubscription"}

TypedOperations ==
    {"CreateProduct", "CreateProductVariant", "UploadProductImage",
     "RetrieveAllStorePages", "RetrieveAllProducts",
     "RetrieveSpecificProducts", "GetProductImageUploadStatus",
     "UpdateProduct", "UpdateProductVariant", "UpdateProductImage",
     "RetrieveAllInventory", "RetrieveSpecificInventory", "CreateOrder",
     "RetrieveAllOrders", "RetrieveSpecificOrder", "RetrieveAllProfiles",
     "RetrieveSpecificProfiles", "RetrieveAllTransactions",
     "RetrieveSpecificTransactions", "CreateWebhookSubscription",
     "UpdateWebhookSubscription", "RetrieveAllWebhookSubscriptions",
     "RetrieveSpecificWebhookSubscription", "SendTestNotification",
     "RotateSubscriptionSecret"}

Operations == StatusOperations \cup TypedOperations

OperationReturned == pc = "returned" /\ call.op \in Operations
RequestSent == OperationReturned /\ call.transportCalls = 1
ResponseReceived == RequestSent /\ call.resp.kind = "response"

\* C4: for every exposed operation, when the configuration carries a
\* non-empty override base URL the request handed to the transport is
\* addressed to {override}/{version}/{path} (followed by the query of a list
\* operation), and so never to the production host.  The operations of
\* packages inventory, orders and webhooks format their URL from the
\* production host and never read config.BaseURL, so this does not hold.
C4_OverrideAddressesEveryRequest ==
    (RequestSent /\ call.config.BaseURL # "") =>
        /\ call.req.url =
              URLString(Concat(<<call.config.BaseURL, "/", call.version, "/",
                                 call.path>>), call.req.query)
        /\ call.req.url #
              URLString(Concat(<<ProductionHost, "/", call.version, "/",
                                 call.path>>), call.req.query)

\* The status code the remote API answers a successful call of the
\* operation with.
SuccessStatus(op) ==
    CASE op \in {"CreateProduct", "CreateProductVariant", "CreateOrder",
                 "CreateWebhookSubscription"} -> 201
      [] op = "UploadProductImage" -> 202
      [] op \in StatusOperations -> 204
      [] OTHER -> 200

SizeCheckedOperations ==
    {"RetrieveSpecificProducts", "RetrieveSpecificInventory",
     "RetrieveSpecificTransactions"}

SizeErrors ==
    {"at least one product ID is required",
     "cannot retrieve more than 50 products at once",
     "no inventory IDs provided",
     "cannot retrieve more than 50 inventory IDs",
     "transactionIDs cannot be empty",
     "transactionIDs cannot exceed 50 IDs"}

\* C10: RetrieveSpecificProducts, RetrieveSpecificInventory and
\* RetrieveSpecificTransactions return a local error and no result, with no
\* request built and the transport never invoked, when the ID list is empty
\* or holds more than 50 IDs; a list of exactly 50 IDs passes the size check
\* (the call goes on to the transport).
C10_IDListSizeCheckedLocally ==
    (OperationReturned /\ call.op \in SizeCheckedOperations) =>
        /\ (call.in.count = 0 \/ call.in.count > 50) =>
                /\ call.err \in SizeErrors
                /\ call.result = NoResult
                /\ call.req = NoRequest
                /\ call.transportCalls = 0
        /\ call.in.count = 50 =>
                /\ call.err \notin SizeErrors
                /\ call.ctx # Nil => call.transportCalls = 1

\* 51 inventory IDs are turned down before any request exists.
C10_Witness ==
    /\ OperationReturned
    /\ call.op = "RetrieveSpecificInventory"
    /\ call.in.count = 51
    /\ call.ctx # Nil
    /\ call.transportCalls = 0
    /\ call.err = "cannot retrieve more than 50 inventory IDs"

ListOperations ==
    {"RetrieveAllProducts", "RetrieveAllStorePages", "RetrieveAllInventory",
     "RetrieveAllOrders", "RetrieveAllTransactions", "RetrieveAllProfiles"}

OperationCalled == pc # "idle" /\ call.op \in Operations

\* C11: every list operation that takes query parameters validates them with
\* ValidateQueryParams before it builds its request: when the validation
\* fails the call returns a nil result and the validation error wrapped as
\* "invalid query parameters: ...", no request exists and the transport was
\* not invoked; a request exists only for parameters the validation accepts.
C11_ListOperationsValidateFirst ==
    (OperationCalled /\ call.op \in ListOperations) =>
        LET invalid == ValidateQueryParams(call.in.params)
        IN  /\ invalid # NilErr =>
                /\ pc = "returned"
                /\ call.result = NoResult
                /\ call.err = Wrap("invalid query parameters", invalid)
                /\ call.req = NoRequest
                /\ call.transportCalls = 0
            /\ call.req # NoRequest => invalid = NilErr

\* RetrieveAllInventory turned down for a cursor next to a filter.
C11_Witness ==
    /\ OperationReturned
    /\ call.op = "RetrieveAllInventory"
    /\ call.in.params.Cursor = "abc123"
    /\ call.in.params.Filter = "hasAccount"
    /\ call.ctx # Nil
    /\ call.config.Client # Nil
    /\ call.transportCalls = 0
    /\ call.result = NoResult
    /\ call.err = "invalid query parameters: cannot use cursor alongside other query parameters"

\* C12: every call of an exposed operation invokes the injected transport at
\* most once: a call that returns has invoked it exactly once when its local
\* preconditions passed and its request was constructed, and not at all
\* otherwise; a transport failure, a status other than the expected one and
\* a body that does not decode are each the answer to that one invocation
\* (nothing is retried).
C12_TransportInvokedAtMostOnce ==
    OperationCalled =>
        /\ call.transportCalls \in {0, 1}
        /\ pc = "returned" =>
              (call.transportCalls = 1 <=> call.req # NoRequest)
        /\ call.resp.kind # "none" => call.transportCalls = 1

\* CreateProduct answered once with 400: one invocation, an error, no retry.
C12_Witness ==
    /\ OperationReturned
    /\ call.op = "CreateProduct"
    /\ call.resp.kind = "response"
    /\ call.resp.status = 400
    /\ call.err # NilErr
    /\ call.transportCalls = 1

\* The texts the operations put in front of a transport error.
TransportErrorPrefixes ==
    {"failed to adjust stock quantities", "failed to assign image to variant",
     "failed to create order", "failed to create product variant",
     "failed to create product", "failed to create webhook subscription",
     "failed to delete product image", "failed to delete product variant",
     "failed to delete product", "failed to delete webhook subscription",
     "failed to execute request", "failed to fetch store pages",
     "failed to fulfill order", "failed to get product image upload status",
     "failed to reorder product image", "failed to retrieve all orders",
     "failed to retrieve all profiles", "failed to retrieve order",
     "failed to retrieve specific inventory",
     "failed to retrieve specific products",
     "failed to retrieve specific profiles",
     "failed to retrieve webhook subscription",
     "failed to retrieve webhook subscriptions",
     "failed to rotate subscription secret",
     "failed to send test notification", "failed to update product image",
     "failed to update product variant", "failed to update product",
     "failed to update webhook subscription",
     "failed to upload product image"}

\* C13: when the injected transport returns an error, the operation returns
\* an error that wraps the transport's error ("failed to ...: <transport
\* error>") and no typed result (a status-code operation returns 400), after
\* its one transport invocation and without reading, closing or parsing any
\* response.
C13_TransportErrorReturnedAtOnce ==
    (OperationCalled /\ call.resp.kind = "error") =>
        /\ pc = "returned"
        /\ \E prefix \in TransportErrorPrefixes :
              call.err = Wrap(prefix, call.resp.err)
        /\ call.result = NoResult
        /\ call.shape = "status" => call.code = 400
        /\ call.transportCalls = 1
        /\ ~call.bodyRead
        /\ ~call.bodyClosed

\* CreateProduct with the connection refused.
C13_Witness ==
    /\ OperationReturned
    /\ call.op = "CreateProduct"
    /\ call.resp.kind = "error"
    /\ call.result = NoResult
    /\ call.err = "failed to create product: dial tcp: connection refused"

\* The mutating operations of packages inventory and orders.
MutatingOperations == {"AdjustStockQuantities", "CreateOrder", "FulfillOrder"}

\* C14: when the configuration carries an idempotency key, the request of
\* AdjustStockQuantities, CreateOrder and FulfillOrder has it as its
\* Idempotency-Key header; when the configuration carries none, no request has
\* that header.  FulfillOrder sets Authorization, User-Agent and Content-Type
\* only and never reads config.IdempotencyKey, so this does not hold.
C14_MutatingOperationsSendIdempotencyKey ==
    RequestSent =>
        /\ call.config.IdempotencyKey = Nil =>
              call.req.headers.IdempotencyKey = Nil
        /\ (call.config.IdempotencyKey # Nil /\ call.op \in MutatingOperations)
              => call.req.headers.IdempotencyKey = call.config.IdempotencyKey

\* C15: the body of ReorderProductImage's request is {"afterImageId":null}
\* when the request's AfterImageID is nil and {"afterImageId":"<id>"} when it
\* points to an id.  The member is tagged omitempty, so json.Marshal leaves a
\* nil AfterImageID out and the body is {}: this does not hold.
C15_AbsentAfterImageIDIsExplicitNull ==
    (RequestSent /\ call.op = "ReorderProductImage") =>
        call.req.body.text =
            IF call.in.request.AfterImageID = Nil
            THEN "{\"afterImageId\":null}"
            ELSE Concat(<<"{\"afterImageId\":\"",
                          call.in.request.AfterImageID, "\"}">>)

\* C16: however an operation is left, with a result or with any error, the
\* response body the transport handed over has been closed, and the file
\* UploadProductImage opened has been closed.
C16_BodiesAndFilesClosedOnEveryPath ==
    OperationCalled =>
        /\ call.resp.kind = "response" => call.bodyClosed
        /\ call.fileOpened => call.fileClosed

\* UploadProductImage fails on an unreadable response body, with the file it
\* opened and the body it was given both closed.
C16_Witness ==
    /\ OperationReturned
    /\ call.op = "UploadProductImage"
    /\ call.resp.kind = "response"
    /\ call.err # NilErr
    /\ call.fileOpened /\ call.fileClosed
    /\ call.bodyRead /\ call.bodyClosed

(***************************************************************************)
(* Concurrent invocations.  Goroutines of one caller invoke CreateProduct  *)
(* and AdjustStockQuantities with the same *common.Config.  Here pc maps a *)
(* goroutine to its position in the operation and call holds the shared    *)
(* configuration and each goroutine's locals.  An operation reads the      *)
(* configuration at three places (the base URL, the headers, the client);  *)
(* seen collects what the goroutine read, at the moment it read it, and    *)
(* the operation computes with what it read.                               *)
(***************************************************************************)
Goroutines == {"g1", "g2"}

ConcurrentOperations == {"CreateProduct", "AdjustStockQuantities"}

ConcurrentAnswers ==
    {TransportFailure,
     Response(StatusCreated,
              ObjectBody([EmptyObj EXCEPT !.id = JStr("123")]), NilErr),
     Response(StatusNoContent, OtherBody("", "empty"), NilErr),
     Response(StatusBadRequest,
              ObjectBody([EmptyObj EXCEPT
                             !.type = JStr("INVALID_REQUEST_ERROR"),
                             !.message = JStr("Bad Request")]), NilErr)}

ConcurrentRequests(op) ==
    IF op = "CreateProduct"
    THEN [Type : {"PHYSICAL"}, StorePageID : {"page-1"},
          Name : {"Test Product"}]
    ELSE [InventoryID : {"inv-1"}, Delta : {5}]

\* the configuration fields the operation reads at each of the three places
ConfigReads(op) ==
    IF op = "CreateProduct"
    THEN [url |-> {"BaseURL"}, headers |-> {"APIKey", "UserAgent"},
          client |-> {"Client"}]
    ELSE [url |-> {}, headers |-> {"APIKey", "UserAgent", "IdempotencyKey"},
          client |-> {"Client"}]

Unread ==
    [APIKey |-> "", AccessToken |-> "", UserAgent |-> "", Client |-> Nil,
     IdempotencyKey |-> Nil, BaseURL |-> ""]

ReadConfig(seen, config, fields) ==
    [f \in DOMAIN seen |-> IF f \in fields THEN config[f] ELSE seen[f]]

\* the operation run by itself with the configuration
Alone(op, ctx, config, request, net) ==
    IF op = "CreateProduct"
    THEN CreateProduct(ctx, config, request, net)
    ELSE AdjustStockQuantities(ctx, config, request, net)

NotInvoked == [op |-> "none"]

InitConcurrent ==
    /\ pc = [g \in Goroutines |-> "idle"]
    /\ \E config \in Configs :
          call = [config |-> config, of |-> [g \in Goroutines |-> NotInvoked]]

\* a panic in one goroutine ends the process
Running == \A g \in Goroutines : pc[g] # "aborted"

Invoke(g) ==
    /\ Running
    /\ pc[g] = "idle"
    /\ \E op \in ConcurrentOperations, net \in ConcurrentAnswers :
         \E request \in ConcurrentRequests(op) :
            call' = [call EXCEPT !.of[g] =
                        [op |-> op, ctx |-> "ctx", request |-> request,
                         net |-> net, seen |-> Unread]]
    /\ pc' = [pc EXCEPT ![g] = "invoked"]

\* baseURL, err := common.BuildBaseURL(config, ...)  /  url := fmt.Sprintf(...)
BuildURL(g) ==
    /\ Running
    /\ pc[g] = "invoked"
    /\ call' = [call EXCEPT !.of[g].seen =
                   ReadConfig(@, call.config, ConfigReads(call.of[g].op).url)]
    /\ pc' = [pc EXCEPT ![g] = "built"]

\* a SetHeaders that uses up the configured idempotency key
SetHeadersMutantConsumesKey(g) ==
    /\ Running
    /\ pc[g] = "built"
    /\ call' = [call EXCEPT
                   !.of[g].seen =
                       ReadConfig(@, call.config,
                                  ConfigReads(call.of[g].op).headers),
                   !.config.IdempotencyKey = Nil]
    /\ pc' = [pc EXCEPT ![g] = "prepared"]

\* req.Header.Set(...) with config.APIKey, config.UserAgent and, in
\* AdjustStockQuantities, config.IdempotencyKey
SetHeaders(g) ==
    /\ Running
    /\ pc[g] = "built"
    /\ call' = [call EXCEPT !.of[g].seen =
                   ReadConfig(@, call.config,
                              ConfigReads(call.of[g].op).headers)]
    /\ pc' = [pc EXCEPT ![g] = "prepared"]

\* resp, err := config.Client.Do(req) and the handling of its answer, which
\* touches the goroutine's locals only
ClientDo(g) ==
    /\ Running
    /\ pc[g] = "prepared"
    /\ LET my == call.of[g]
           seen == ReadConfig(my.seen, call.config, ConfigReads(my.op).client)
           out == Alone(my.op, my.ctx, seen, my.request, my.net)
       IN  /\ call' = [call EXCEPT !.of[g] =
                          [op |-> my.op, ctx |-> my.ctx,
                           request |-> my.request, net |-> my.net,
                           seen |-> seen, out |-> out]]
           /\ pc' = [pc EXCEPT ![g] = IF out.panicked THEN "aborted"
                                      ELSE "returned"]

ReturnToCaller(g) ==
    /\ Running
    /\ pc[g] = "returned"
    /\ call' = [call EXCEPT !.of[g] = NotInvoked]
    /\ pc' = [pc EXCEPT ![g] = "idle"]

NextConcurrent ==
    \/ \E g \in Goroutines : Invoke(g)
    \/ \E g \in Goroutines : BuildURL(g)
    \/ \E g \in Goroutines : SetHeaders(g)
    \/ \E g \in Goroutines : ClientDo(g)
    \/ \E g \in Goroutines : ReturnToCaller(g)

SpecConcurrent == InitConcurrent /\ [][NextConcurrent]_vars

C18_EveryFailureIsAReturnedError ==
    OperationCalled =>
        /\ pc = "returned"
        /\ ~call.panicked
        /\ call.config.Client = Nil => call.err # NilErr

\* C19: when the response has the operation's success status and a body that
\* is not JSON, an operation with a typed result returns a nil result and the
\* error "failed to unmarshal response body: <the decoder's error>".
C19_UndecodableSuccessBodyIsAnError ==
    (/\ ResponseReceived
     /\ call.op \in TypedOperations
     /\ call.resp.status = SuccessStatus(call.op)
     /\ call.resp.readErr = NilErr
     /\ call.resp.body.kind = "invalid") =>
        /\ call.result = NoResult
        /\ call.err =
              Wrap("failed to unmarshal response body",
                   "invalid character 'i' looking for beginning of value")

\* RetrieveAllInventory answered 200 with the body "invalid json".
C19_Witness ==
    /\ ResponseReceived
    /\ call.op = "RetrieveAllInventory"
    /\ call.resp.status = StatusOK
    /\ call.resp.body.raw = "invalid json"
    /\ call.result.nil
    /\ call.err = "failed to unmarshal response body: invalid character 'i' looking for beginning of value"

\* C20: SetUserAgent returns "gocommerce/default-client" for the empty
\* user-agent and every non-empty user-agent as it was given.
C20_UserAgentDefaulted ==
    (pc = "returned" /\ call.op = "SetUserAgent") =>
        call.result = IF call.userAgent = ""
                      THEN "gocommerce/default-client"
                      ELSE call.userAgent

\* SetUserAgent has returned a caller's own user-agent.
C20_Witness ==
    /\ pc = "returned"
    /\ call.op = "SetUserAgent"
    /\ call.userAgent = "custom-agent"
    /\ call.result = "custom-agent"

WebhookOperations ==
    {"CreateWebhookSubscription", "UpdateWebhookSubscription",
     "RetrieveAllWebhookSubscriptions", "RetrieveSpecificWebhookSubscription",
     "DeleteWebhookSubscription", "SendTestNotification",
     "RotateSubscriptionSecret"}

\* C21: every request handed to the transport has the Authorization header
\* "Bearer <credential>", the credential being config.AccessToken for the
\* webhook operations and config.APIKey for all others, and a non-empty
\* User-Agent header: the configured user-agent, or
\* "gocommerce/default-client" when none is configured.
C21_StandardHeadersOnEveryRequest ==
    RequestSent =>
        /\ call.req.headers.Authorization =
              "Bearer " \o (IF call.op \in WebhookOperations
                            THEN call.config.AccessToken
                            ELSE call.config.APIKey)
        /\ call.req.headers.UserAgent # ""
        /\ call.req.headers.UserAgent # Nil
        /\ call.req.headers.UserAgent =
              IF call.config.UserAgent = ""
              THEN "gocommerce/default-client"
              ELSE call.config.UserAgent

\* CreateWebhookSubscription sent with the access token and no configured
\* user-agent.
C21_Witness ==
    /\ RequestSent
    /\ call.op = "CreateWebhookSubscription"
    /\ call.config.UserAgent = ""
    /\ call.req.headers.Authorization = "Bearer test-token"
    /\ call.req.headers.UserAgent = "gocommerce/default-client"

\* The webhook operations that take a subscriptionID.
SubscriptionOperations ==
    WebhookOperations
        \ {"CreateWebhookSubscription", "RetrieveAllWebhookSubscriptions"}

WebhookLocalErrors ==
    {"access token is required", "subscriptionID cannot be empty",
     "topics cannot be empty", "topics cannot be an empty array",
     "topic is required"}

\* The error the claim gives a call of a webhook operation, NilErr when no
\* local check fails.
WebhookCheckFailure ==
    IF call.config.AccessToken = "" THEN "access token is required"
    ELSE IF call.op \in SubscriptionOperations /\ call.in.subscriptionID = ""
    THEN "subscriptionID cannot be empty"
    ELSE IF call.op = "CreateWebhookSubscription"
            /\ Len(call.in.request.Topics.items) = 0
    THEN "topics cannot be empty"
    ELSE IF call.op = "UpdateWebhookSubscription"
            /\ ~call.in.request.Topics.nil
            /\ Len(call.in.request.Topics.items) = 0
    THEN "topics cannot be an empty array"
    ELSE IF call.op = "SendTestNotification" /\ call.in.request.Topic = ""
    THEN "topic is required"
    ELSE NilErr

\* C22: a webhook operation checks, in this order, that config.AccessToken is
\* non-empty, that its subscriptionID (when it takes one) is non-empty, and
\* its payload (CreateWebhookSubscription: Topics neither nil nor empty;
\* UpdateWebhookSubscription: Topics nil or non-empty; SendTestNotification:
\* Topic non-empty).  It returns the error of the first check that fails
\* without building a request or invoking the transport, and reports none of
\* these errors when every check passes.
C22_WebhookInputsCheckedLocally ==
    (OperationCalled /\ call.op \in WebhookOperations) =>
        IF WebhookCheckFailure # NilErr
        THEN /\ pc = "returned"
             /\ call.err = WebhookCheckFailure
             /\ call.result = NoResult
             /\ call.transportCalls = 0
             /\ call.req = NoRequest
        ELSE call.err \notin WebhookLocalErrors

\* UpdateWebhookSubscription with a non-nil empty Topics list is refused
\* before any request.
C22_Witness ==
    /\ OperationReturned
    /\ call.op = "UpdateWebhookSubscription"
    /\ call.config.AccessToken # ""
    /\ call.in.subscriptionID # ""
    /\ ~call.in.request.Topics.nil
    /\ call.in.request.Topics.items = <<>>
    /\ call.err = "topics cannot be an empty array"
    /\ call.transportCalls = 0

StatusOperationReturned == OperationReturned /\ call.op \in StatusOperations

\* C23 as stated: a status-code operation returns 204 and a nil error on
\* success, the status it received and a non-nil error when it received any
\* other status, and 400 and a non-nil error when it failed before receiving
\* a response; its error is nil exactly when it returns 204.  When the body
\* of a response with another status cannot be read the operation returns
\* 400, not the status it received, so this does not hold.
C23_StatusOperationsReturnReceivedStatus ==
    StatusOperationReturned =>
        /\ (call.resp.kind = "response" /\ call.resp.status = StatusNoContent)
              => (call.code = StatusNoContent /\ call.err = NilErr)
        /\ (call.resp.kind = "response" /\ call.resp.status # StatusNoContent)
              => (call.code = call.resp.status /\ call.err # NilErr)
        /\ call.resp.kind # "response"
              => (call.code = StatusBadRequest /\ call.err # NilErr)
        /\ call.err = NilErr <=> call.code = StatusNoContent

\* C23, amended: a status-code operation returns 204 and a nil error on
\* success; the status it received and a non-nil error when it received any
\* other status and read the response's body; 400 and the error "failed to
\* read response body: ..." when it received another status and could not
\* read the body; 400 and a non-nil error when it failed before receiving a
\* response.  Its error is nil exactly when it returns 204.  The one call
\* that does not return is the call with no transport injected that passed
\* its local checks, which panics.
C23_StatusOperationsReturnStatusOrBadRequest ==
    (OperationCalled /\ call.op \in StatusOperations) =>
        IF call.panicked
        THEN /\ pc = "aborted"
             /\ call.config.Client = Nil
             /\ call.resp.kind = "none"
        ELSE /\ pc = "returned"
             /\ (call.resp.kind = "response"
                    /\ call.resp.status = StatusNoContent)
                   => (call.code = StatusNoContent /\ call.err = NilErr)
             /\ (call.resp.kind = "response"
                    /\ call.resp.status # StatusNoContent
                    /\ call.resp.readErr = NilErr)
                   => (call.code = call.resp.status /\ call.err # NilErr)
             /\ (call.resp.kind = "response"
                    /\ call.resp.status # StatusNoContent
                    /\ call.resp.readErr # NilErr)
                   => /\ call.code = StatusBadRequest
                      /\ call.err = Wrap("failed to read response body",
                                         call.resp.readErr)
             /\ call.resp.kind # "response"
                   => (call.code = StatusBadRequest /\ call.err # NilErr)
             /\ call.err = NilErr <=> call.code = StatusNoContent

\* FulfillOrder is answered 200 with a body that cannot be read and returns
\* 400.
C23_Witness ==
    /\ StatusOperationReturned
    /\ call.op = "FulfillOrder"
    /\ call.resp.kind = "response"
    /\ call.resp.status = StatusOK
    /\ call.resp.readErr # NilErr
    /\ call.code = StatusBadRequest
    /\ call.err = "failed to read response body: unexpected EOF"

\* The sampled timestamps time.Parse(time.RFC3339, ...) accepts, and the
\* sampled type filters validateTypeParam refuses.
WellFormedTimestamps ==
    {<<"2024-01-15", "T", "10:30:00", "Z">>,
     <<"2024-06-30", "T", "10:30:00", "+02:00">>}
RefusedTypes == {<<"INVALID">>, <<"PHYSICAL", ",", "PHYSICAL">>}

\* C24: ValidateQueryParams reports the first rule violated, in the order
\* cursor exclusivity, pairing of the modified bounds, the bounds' format,
\* the type filter.  With Cursor set and a lone or malformed modified bound
\* the error is the cursor error; with Cursor empty, a lone bound and a
\* refused Type it is the pairing error; with Cursor empty, both bounds
\* present, one of them malformed, and a refused Type it is the error of the
\* first malformed bound.
C24_FirstViolatedRuleReported ==
    ValidateReturned =>
        LET p == call.params
            lone == (p.ModifiedAfter # <<>>) # (p.ModifiedBefore # <<>>)
            both == p.ModifiedAfter # <<>> /\ p.ModifiedBefore # <<>>
            badAfter == p.ModifiedAfter # <<>>
                           /\ p.ModifiedAfter \notin WellFormedTimestamps
            badBefore == p.ModifiedBefore # <<>>
                            /\ p.ModifiedBefore \notin WellFormedTimestamps
        IN  /\ (p.Cursor # "" /\ (lone \/ badAfter \/ badBefore)) =>
                  call.err =
                     "cannot use cursor alongside other query parameters"
            /\ (p.Cursor = "" /\ lone /\ p.Type \in RefusedTypes) =>
                  call.err =
                     "modifiedAfter and modifiedBefore must both be specified together or not at all"
            /\ (/\ p.Cursor = "" /\ both /\ (badAfter \/ badBefore)
                /\ p.Type \in RefusedTypes) =>
                  call.err =
                     IF badAfter
                     THEN "modifiedAfter is not a valid ISO 8601 UTC date-time string: "
                             \o TimeParseErr(p.ModifiedAfter)
                     ELSE "modifiedBefore is not a valid ISO 8601 UTC date-time string: "
                             \o TimeParseErr(p.ModifiedBefore)

\* Both bounds present, ModifiedBefore malformed, Type refused: the error
\* names modifiedBefore and not the type.
C24_Witness ==
    /\ ValidateReturned
    /\ call.params.Cursor = ""
    /\ call.params.ModifiedAfter = <<"2024-01-15", "T", "10:30:00", "Z">>
    /\ call.params.ModifiedBefore = <<"invalid-date">>
    /\ call.params.Type = <<"INVALID">>
    /\ call.err = "modifiedBefore is not a valid ISO 8601 UTC date-time string: "
                     \o TimeParseErr(<<"invalid-date">>)

\* The operations of package products that take a product ID, as a
\* parameter or as a field of their request.
ProductIDParameterOperations ==
    {"UploadProductImage", "GetProductImageUploadStatus", "UpdateProduct",
     "DeleteProduct", "DeleteProductVariant", "DeleteProductImage"}
ProductIDRequestOperations ==
    {"CreateProductVariant", "AssignProductImageToVariant",
     "ReorderProductImage", "UpdateProductVariant", "UpdateProductImage"}

GivenProductID ==
    IF call.op \in ProductIDParameterOperations
    THEN call.in.productID
    ELSE call.in.request.ProductID

\* C25: an operation that takes a product ID and is given the empty one
\* returns an error without building a request or invoking the transport.
\* Only CreateProductVariant, UpdateProduct and DeleteProduct test the ID;
\* the other eight put it into the URL as it is, so this does not hold.
C25_EmptyProductIDRefusedLocally ==
    (/\ OperationCalled
     /\ call.op \in ProductIDParameterOperations \cup ProductIDRequestOperations
     /\ GivenProductID = "") =>
        /\ pc = "returned"
        /\ call.err # NilErr
        /\ call.req = NoRequest
        /\ call.transportCalls = 0

ProfilesCalled == OperationCalled /\ call.op = "RetrieveSpecificProfiles"

\* C26 as stated: RetrieveSpecificProfiles returns an error without building
\* a request or invoking the transport when the profile ID list is empty or
\* holds more than 50 IDs.  The operation tests the list for emptiness only
\* and sends a longer list to the service, so this does not hold.
C26_ProfileIDListSizeCheckedLocally ==
    (ProfilesCalled /\ (call.in.count = 0 \/ call.in.count > 50)) =>
        /\ pc = "returned"
        /\ call.err # NilErr
        /\ call.req = NoRequest
        /\ call.transportCalls = 0

\* C26, amended: RetrieveSpecificProfiles returns the error "profileIDs
\* cannot be empty", without building a request or invoking the transport,
\* when the profile ID list is empty.  A list of any other length, more than
\* 50 IDs included, passes the local check: given a context and a transport,
\* the request for profiles/<the IDs joined by commas> goes to the transport
\* and the service's answer decides the result.
C26_ProfileIDListCheckedForEmptinessOnly ==
    ProfilesCalled =>
        /\ call.in.count = 0 =>
              /\ pc = "returned"
              /\ call.err = "profileIDs cannot be empty"
              /\ call.result = NoResult
              /\ call.req = NoRequest
              /\ call.transportCalls = 0
        /\ (call.in.count > 0 /\ call.ctx # Nil /\ call.config.Client # Nil) =>
              /\ pc = "returned"
              /\ call.transportCalls = 1
              /\ call.path = "profiles/" \o JoinIDs(call.in.count, ",")
              /\ (/\ call.resp.kind = "response"
                  /\ call.resp.status = StatusOK
                  /\ call.resp.readErr = NilErr
                  /\ call.resp.body.kind = "object")
                    => (call.err = NilErr /\ ~call.result.nil)

\* 51 profile IDs are sent, and the service's 400 comes back as the error.
C26_Witness ==
    /\ ProfilesCalled
    /\ pc = "returned"
    /\ call.in.count = 51
    /\ call.transportCalls = 1
    /\ call.resp.kind = "response"
    /\ call.resp.status = StatusBadRequest
    /\ call.resp.body.kind = "object"
    /\ call.err # NilErr
    /\ call.result = NoResult

\* C27: a request handed to the transport has a Content-Type header exactly
\* when it has a body: application/json with a JSON body, the multipart
\* form-data type with the image upload, and none without a body.
\* RotateSubscriptionSecret builds its POST with a nil body and still sets
\* Content-Type: application/json, so this does not hold.
C27_ContentTypeExactlyWithBody ==
    RequestSent =>
        call.req.headers.ContentType =
            CASE call.req.body.kind = "json" -> "application/json"
              [] call.req.body.kind = "multipart" -> FormDataContentType
              [] OTHER -> Nil

ListRequestSent == RequestSent /\ call.op \in ListOperations

\* The fields of common.QueryParams and the value of one as a query value.
ParamFields ==
    {"Cursor", "Filter", "ModifiedAfter", "ModifiedBefore", "SortDirection",
     "SortField", "Status", "Type"}
ParamValue(params, field) ==
    IF field \in {"ModifiedAfter", "ModifiedBefore", "Type"}
    THEN params[field]
    ELSE IF params[field] = "" THEN <<>> ELSE <<params[field]>>

\* C28 as stated: the query of a list operation's request has every
\* non-empty parameter of the validated set, cursor as cursor and the
\* modified bounds as modifiedAfter and modifiedBefore.  Each operation sets
\* only the parameters of its own endpoint (RetrieveAllInventory only
\* cursor), so this does not hold.
C28_EveryValidatedParameterCarried ==
    ListRequestSent =>
        LET p == call.in.params
        IN  /\ \A field \in ParamFields :
                  ParamValue(p, field) # <<>> =>
                      \E pair \in call.req.query :
                          pair[2] = ParamValue(p, field)
            /\ p.Cursor # "" => <<"cursor", <<p.Cursor>>>> \in call.req.query
            /\ p.ModifiedAfter # <<>> =>
                  <<"modifiedAfter", p.ModifiedAfter>> \in call.req.query
            /\ p.ModifiedBefore # <<>> =>
                  <<"modifiedBefore", p.ModifiedBefore>> \in call.req.query

\* The parameters each list endpoint takes: the query key and the field of
\* common.QueryParams it is set from.
EndpointParameters(op) ==
    CASE op = "RetrieveAllStorePages" -> {<<"cursor", "Cursor">>}
      [] op = "RetrieveAllInventory" -> {<<"cursor", "Cursor">>}
      [] op = "RetrieveAllProducts" ->
            {<<"cursor", "Cursor">>, <<"modifiedAfter", "ModifiedAfter">>,
             <<"modifiedBefore", "ModifiedBefore">>, <<"type", "Type">>}
      [] op = "RetrieveAllOrders" ->
            {<<"cursor", "Cursor">>, <<"modifiedAfter", "ModifiedAfter">>,
             <<"modifiedBefore", "ModifiedBefore">>,
             <<"fulfillmentStatus", "Status">>}
      [] op = "RetrieveAllTransactions" ->
            {<<"cursor", "Cursor">>, <<"modifiedAfter", "ModifiedAfter">>,
             <<"modifiedBefore", "ModifiedBefore">>}
      [] op = "RetrieveAllProfiles" ->
            {<<"cursor", "Cursor">>, <<"filter", "Filter">>,
             <<"sortDirection", "SortDirection">>,
             <<"sortField", "SortField">>}

\* C28, amended: the query of a list operation's request has exactly the
\* non-empty parameters of the validated set that the operation's endpoint
\* takes, each under its key: cursor for all six operations; modifiedAfter
\* and modifiedBefore for products, orders and transactions; type for
\* products; Status as fulfillmentStatus for orders; filter, sortDirection
\* and sortField for profiles.  A non-empty parameter the endpoint does not
\* take is validated and not sent.
C28_EndpointParametersCarried ==
    ListRequestSent =>
        call.req.query =
            {<<kf[1], ParamValue(call.in.params, kf[2])>> :
                kf \in {x \in EndpointParameters(call.op) :
                           ParamValue(call.in.params, x[2]) # <<>>}}

\* RetrieveAllTransactions sent with both modified bounds in its query.
C28_Witness ==
    /\ ListRequestSent
    /\ call.op = "RetrieveAllTransactions"
    /\ call.in.params.ModifiedAfter # <<>>
    /\ call.req.query =
          {<<"modifiedAfter", call.in.params.ModifiedAfter>>,
           <<"modifiedBefore", call.in.params.ModifiedBefore>>}
    /\ Cardinality(call.req.query) = 2

\* C29: whenever the query of a list operation's request has the cursor
\* parameter, it has no other parameter.  ValidateQueryParams leaves Type out
\* of its cursor test (C1), so RetrieveAllProducts sends cursor and type
\* together and this does not hold.
C29_CursorAloneInQuery ==
    ListRequestSent =>
        ((\E pair \in call.req.query : pair[1] = "cursor")
            => Cardinality(call.req.query) = 1)

TypedOperationReturned == OperationReturned /\ call.op \in TypedOperations

\* C30: every call of an operation with a typed result that returns, returns
\* either a non-nil result and a nil error or a nil result and a non-nil
\* error, never both nil and never both non-nil.
C30_ResultOrError ==
    TypedOperationReturned =>
        \/ (~call.result.nil /\ call.err = NilErr)
        \/ (call.result = NoResult /\ call.err # NilErr)

\* CreateProduct answered 201 with a product returns the product and no
\* error.
C30_Witness ==
    /\ TypedOperationReturned
    /\ call.op = "CreateProduct"
    /\ call.resp.kind = "response"
    /\ call.resp.status = StatusCreated
    /\ ~call.result.nil
    /\ call.result.id = "123"
    /\ call.err = NilErr

====
